---- MODULE Spec2Model ----
(***************************************************************************)
(* Drip: spaced-repetition vocabulary trainer.                             *)
(*                                                                         *)
(* Model of the item store (src/database_manager.py): the flashcards       *)
(* table, create_flashcard, update_flashcard_after_review,                 *)
(* get_due_flashcards, the interval policy and the priority scorer.        *)
(*                                                                         *)
(* Units.  Time is counted in quarter hours (the smallest interval the      *)
(* code produces is 0.25 h), and a priority score is stored in quarter     *)
(* points, so that "5 points per overdue hour" is 5 quarter points per      *)
(* overdue quarter hour and every value stays an integer.                  *)
(*                                                                         *)
(* Clock.  datetime.now() is the variable now.  One call of                *)
(* update_flashcard_after_review reads the clock several times within      *)
(* microseconds; no modelled comparison distinguishes those reads, so the  *)
(* update uses one reading.  get_due_flashcards scores the rows one after  *)
(* the other, each with its own reading, and queries with a later one; the *)
(* ordering compares those scores, so the action lets the clock advance    *)
(* between two rows or between the scoring and the query.                  *)
(***************************************************************************)
EXTENDS Integers, Sequences, FiniteSets, TLC

VARIABLES
    now,      \* datetime.now(), in quarter hours
    cards,    \* the flashcards table: cards[id] is the row with that id
    last,     \* the most recent call: operation, arguments, return value
    hist,     \* per row: outcomes applied so far (history, not program state)
    steps,    \* rows created, outcomes applied and clock advances so far
    app       \* the review orchestrator (ReviewerScheduleMaker) and its windows

vars == <<now, cards, last, hist, steps, app>>

----------------------------------------------------------------------------
(* Bounds *)

(* length of a run: rows created + outcomes applied to a row + clock       *)
(* advances                                                                *)
MaxSteps == 5

(* quarter hours the clock may advance while one due query runs *)
MaxDrift == 1

(* Units *)
QuartersPerHour == 4

Hours(h) == h * QuartersPerHour
Points(p) == p * QuartersPerHour

Min(a, b) == IF a <= b THEN a ELSE b

Results == {"True", "False", "TIMEOUT", "ESCAPE"}
NonAnswers == {"TIMEOUT", "ESCAPE"}

(* limit arguments the program passes to get_due_flashcards *)
StartupLimit == 1
SessionLimit == 5
Limits == {StartupLimit, SessionLimit}

Ids == 1..Len(cards)

----------------------------------------------------------------------------
(* Interval policy: _calculate_next_interval *)

base_intervals(stage_id) ==
    CASE stage_id = 1 -> Hours(1) \div 2
      [] stage_id = 2 -> Hours(2)
      [] stage_id = 3 -> Hours(24)
      [] stage_id = 4 -> Hours(168)
      [] OTHER -> Hours(1) \div 2

(* variant: a Correct doubles the base interval at every stage *)
CalculateNextInterval_Double(flashcard, result) ==
    LET base_interval == base_intervals(flashcard.stage_id)
    IN  IF result = "True" THEN base_interval * 2
        ELSE IF result = "False" THEN base_interval \div 2
        ELSE base_interval

(* variant: an Incorrect keeps the base interval *)
CalculateNextInterval_NoHalf(flashcard, result) ==
    LET base_interval == base_intervals(flashcard.stage_id)
    IN  IF result = "True"
        THEN IF flashcard.stage_id <= 2
             THEN base_interval * 2
             ELSE (base_interval * 3) \div 2
        ELSE base_interval

CalculateNextInterval(flashcard, result) ==
    LET base_interval == base_intervals(flashcard.stage_id)
    IN  IF result = "True"
        THEN IF flashcard.stage_id <= 2
             THEN base_interval * 2
             ELSE (base_interval * 3) \div 2
        ELSE IF result = "False"
        THEN base_interval \div 2
        ELSE base_interval

----------------------------------------------------------------------------
(* Priority scorer: _calculate_priority_score, evaluated at clock reading t *)

stage_priority(stage_id) ==
    CASE stage_id = 1 -> Points(100)
      [] stage_id = 2 -> Points(80)
      [] stage_id = 3 -> Points(60)
      [] stage_id = 4 -> Points(40)

(* variant: the overdue bonus is not capped *)
OverdueBonus_NoCap(flashcard, t) ==
    IF flashcard.next_review_time <= t
    THEN (t - flashcard.next_review_time) * 5
    ELSE 0

OverdueBonus(flashcard, t) ==
    IF flashcard.next_review_time <= t
    THEN Min((t - flashcard.next_review_time) * 5, Points(50))
    ELSE 0

WrongPenalty(flashcard) ==
    IF flashcard.correct = "False" THEN Points(30) ELSE 0

CreationBonus(flashcard) ==
    IF flashcard.stage_id = 1 THEN Points(20) ELSE 0

CalculatePriorityScore(flashcard, t) ==
    stage_priority(flashcard.stage_id) + OverdueBonus(flashcard, t)
        + WrongPenalty(flashcard) + CreationBonus(flashcard)

----------------------------------------------------------------------------
(* Rows *)

(* The row create_flashcard inserts at clock reading t.  An optional       *)
(* timestamp is a sequence of length 0 (NULL) or 1.  The columns word,     *)
(* meaning, example and tag take no part in scheduling and are not part of *)
(* the modelled row.                                                       *)
(* variant: the first review is due at once *)
NewRow_DueAtOnce(t) ==
    [ stage_id         |-> 1,
      correct          |-> "NULL",
      created_at       |-> t,
      last_reviewed_at |-> <<>>,
      next_review_time |-> t,
      review_count     |-> 0,
      correct_count    |-> 0,
      wrong_count      |-> 0,
      priority_score   |-> Points(100),
      interval_hours   |-> Hours(1) \div 2 ]

NewRow(t) ==
    [ stage_id         |-> 1,
      correct          |-> "NULL",
      created_at       |-> t,
      last_reviewed_at |-> <<>>,
      next_review_time |-> t + Hours(1) \div 2,
      review_count     |-> 0,
      correct_count    |-> 0,
      wrong_count      |-> 0,
      priority_score   |-> Points(100),
      interval_hours   |-> Hours(1) \div 2 ]

NewHist == [ applied |-> 0, skipped |-> 0, skipped_due |-> FALSE ]

NoCall == [ op |-> "init", id |-> 0, result |-> "", limit |-> 0, ret |-> <<>> ]

Call(op, id, result, limit, ret) ==
    [ op |-> op, id |-> id, result |-> result, limit |-> limit, ret |-> ret ]

IsDue(flashcard, t) == flashcard.next_review_time <= t

----------------------------------------------------------------------------
(* ReviewerScheduleMaker.__init__: no window, nothing pending, no results. *)
(* frames is the call stack of start_review_session invocations that have  *)
(* not returned (the innermost last); batch is the reviewer window's       *)
(* current_flashcards; returned is the value the most recent invocation    *)
(* returned, <<>> before the first return.  timer is the delay in minutes  *)
(* DripApp's review_timer was last armed with, 0 before it is armed;       *)
(* stage_timeouts is the per-stage timeout in seconds.                     *)
NoSession ==
    [ frames         |-> <<>>,
      pending        |-> <<>>,
      results        |-> <<>>,
      notification   |-> "none",
      reviewer       |-> "none",
      batch          |-> <<>>,
      returned       |-> <<>>,
      timer          |-> 0,
      stage_timeouts |-> [ stage_id \in 1..4 |->
                             IF stage_id \in {2, 4} THEN 30 ELSE 20 ] ]

(* DatabaseManager.__init__ / init_database: an empty table *)

Init ==
    /\ now = 0
    /\ cards = <<>>
    /\ last = NoCall
    /\ hist = <<>>
    /\ steps = 0
    /\ app = NoSession

(* create_flashcard *)
CreateFlashcard ==
    /\ steps < MaxSteps
    /\ steps' = steps + 1
    /\ cards' = Append(cards, NewRow(now))
    /\ hist' = Append(hist, NewHist)
    /\ last' = Call("create_flashcard", Len(cards) + 1, "", 0, <<>>)
    /\ UNCHANGED <<now, app>>

(* AutoInsertNewWord.insert_word_to_database: the row the daily loader     *)
(* inserts (its own INSERT statement, not create_flashcard)                *)
InsertedRow(t) ==
    [ stage_id         |-> 1,
      correct          |-> "NULL",
      created_at       |-> t,
      last_reviewed_at |-> <<>>,
      next_review_time |-> t + Hours(1) \div 2,
      review_count     |-> 0,
      correct_count    |-> 0,
      wrong_count      |-> 0,
      priority_score   |-> Points(100),
      interval_hours   |-> Hours(1) \div 2 ]

InsertWordToDatabase ==
    /\ steps < MaxSteps
    /\ steps' = steps + 1
    /\ cards' = Append(cards, InsertedRow(now))
    /\ hist' = Append(hist, NewHist)
    /\ last' = Call("insert_word_to_database", Len(cards) + 1, "", 0, <<>>)
    /\ UNCHANGED <<now, app>>

----------------------------------------------------------------------------
(* update_flashcard_after_review *)

(* variant: the stage is capped one too low *)
NewStage_Cap3(stage_id) == Min(stage_id + 1, 3)

NewStage(stage_id) == Min(stage_id + 1, 4)

(* variant: a TIMEOUT is not counted as a review *)
TimeoutUpdate_NoCount(flashcard, t) ==
    [flashcard EXCEPT !.last_reviewed_at = <<t>>]

(* variant: a TIMEOUT is recorded as a wrong answer *)
TimeoutUpdate_MarksWrong(flashcard, t) ==
    [flashcard EXCEPT
        !.correct = "False",
        !.last_reviewed_at = <<t>>,
        !.review_count = flashcard.review_count + 1]

(* the UPDATE of the TIMEOUT branch *)
TimeoutUpdate(flashcard, t) ==
    [flashcard EXCEPT
        !.last_reviewed_at = <<t>>,
        !.review_count = flashcard.review_count + 1]

(* variant: an ESCAPE reschedules the row by its base interval *)
EscapeUpdate_Reschedule(flashcard, t) ==
    [flashcard EXCEPT
        !.last_reviewed_at = <<t>>,
        !.next_review_time = t + base_intervals(flashcard.stage_id),
        !.review_count = flashcard.review_count + 1]

(* the UPDATE of the ESCAPE branch *)
EscapeUpdate(flashcard, t) ==
    [flashcard EXCEPT
        !.last_reviewed_at = <<t>>,
        !.review_count = flashcard.review_count + 1]

(* the UPDATE of the result == "True" branch *)
CorrectUpdate(flashcard, new_interval, next_review, t) ==
    [flashcard EXCEPT
        !.stage_id = NewStage(flashcard.stage_id),
        !.correct = "True",
        !.last_reviewed_at = <<t>>,
        !.next_review_time = next_review,
        !.review_count = flashcard.review_count + 1,
        !.correct_count = flashcard.correct_count + 1,
        !.interval_hours = new_interval]

(* variant: a wrong answer raises the stage as well *)
WrongUpdate_Promotes(flashcard, new_interval, next_review, t) ==
    [flashcard EXCEPT
        !.stage_id = NewStage(flashcard.stage_id),
        !.correct = "False",
        !.last_reviewed_at = <<t>>,
        !.next_review_time = next_review,
        !.review_count = flashcard.review_count + 1,
        !.wrong_count = flashcard.wrong_count + 1,
        !.interval_hours = new_interval]

(* the UPDATE of the result == "False" branch *)
WrongUpdate(flashcard, new_interval, next_review, t) ==
    [flashcard EXCEPT
        !.correct = "False",
        !.last_reviewed_at = <<t>>,
        !.next_review_time = next_review,
        !.review_count = flashcard.review_count + 1,
        !.wrong_count = flashcard.wrong_count + 1,
        !.interval_hours = new_interval]

(* the row after the branch the call takes for its result *)
ReviewedRow(flashcard, result, t) ==
    IF result = "TIMEOUT" THEN TimeoutUpdate(flashcard, t)
    ELSE IF result = "ESCAPE" THEN EscapeUpdate(flashcard, t)
    ELSE LET new_interval == CalculateNextInterval(flashcard, result)
             next_review == t + new_interval
         IN  IF result = "True"
             THEN CorrectUpdate(flashcard, new_interval, next_review, t)
             ELSE IF result = "False"
             THEN WrongUpdate(flashcard, new_interval, next_review, t)
             ELSE flashcard

(* variant: the stored score is left as it is *)
UpdatePriorityScore_Keep(flashcard, t) == flashcard

(* _update_priority_score *)
UpdatePriorityScore(flashcard, t) ==
    [flashcard EXCEPT !.priority_score = CalculatePriorityScore(flashcard, t)]

HistAfter(h, flashcard, result, t) ==
    [ applied     |-> h.applied + 1,
      skipped     |-> IF result \in NonAnswers THEN h.skipped + 1 ELSE h.skipped,
      skipped_due |-> IF result \in NonAnswers
                      THEN h.skipped_due \/ IsDue(flashcard, t)
                      ELSE FALSE ]

UpdateFlashcardAfterReview(flashcard_id, result) ==
    /\ last' = Call("update_flashcard_after_review", flashcard_id, result, 0, <<>>)
    /\ UNCHANGED <<now, app>>
    /\ IF flashcard_id \notin Ids
       THEN UNCHANGED <<cards, hist, steps>>
       ELSE /\ steps < MaxSteps
            /\ steps' = steps + 1
            /\ cards' = [cards EXCEPT ![flashcard_id] =
                   UpdatePriorityScore(ReviewedRow(cards[flashcard_id], result, now), now)]
            /\ hist' = [hist EXCEPT ![flashcard_id] =
                   HistAfter(hist[flashcard_id], cards[flashcard_id], result, now)]

----------------------------------------------------------------------------
(* get_due_flashcards *)

(* variant: ORDER BY priority_score ASC *)
OrderedBefore_Ascending(a, b) ==
    \/ a.priority_score < b.priority_score
    \/ /\ a.priority_score = b.priority_score
       /\ a.stage_id < b.stage_id
    \/ /\ a.priority_score = b.priority_score
       /\ a.stage_id = b.stage_id
       /\ a.next_review_time < b.next_review_time

(* ORDER BY priority_score DESC, stage_id ASC, next_review_time ASC:       *)
(* a is strictly before b                                                  *)
OrderedBefore(a, b) ==
    \/ a.priority_score > b.priority_score
    \/ /\ a.priority_score = b.priority_score
       /\ a.stage_id < b.stage_id
    \/ /\ a.priority_score = b.priority_score
       /\ a.stage_id = b.stage_id
       /\ a.next_review_time < b.next_review_time

(* the orders in which the SELECT may deliver the rows with ids S: rows    *)
(* with equal sort keys come in an order SQL leaves open                   *)
RECURSIVE SortedSelections(_, _)
SortedSelections(table, S) ==
    IF S = {} THEN { <<>> }
    ELSE UNION { { <<first>> \o rest : rest \in SortedSelections(table, S \ {first}) } :
                 first \in { x \in S : \A y \in S : ~OrderedBefore(table[y], table[x]) } }

(* variant: the stored scores are used as they are *)
UpdateAllPriorityScores_Stale(table, k, t0, t1) == table

(* variant: the rescoring also stamps every row as reviewed *)
UpdateAllPriorityScores_Stamp(table, k, t0, t1) ==
    [ id \in DOMAIN table |->
        [table[id] EXCEPT
            !.priority_score =
                CalculatePriorityScore(table[id], IF id <= k THEN t0 ELSE t1),
            !.last_reviewed_at = <<t1>>] ]

(* _update_all_priority_scores: rows are scored in id order, row id at     *)
(* clock reading t0 up to row k and at t1 afterwards                       *)
UpdateAllPriorityScores(table, k, t0, t1) ==
    [ id \in DOMAIN table |->
        UpdatePriorityScore(table[id], IF id <= k THEN t0 ELSE t1) ]

GetDueFlashcards(limit) ==
    \E drift \in 0..MaxDrift, k \in 0..Len(cards) :
        /\ drift = 0 => k = Len(cards)
        /\ steps + drift <= MaxSteps
        /\ steps' = steps + drift
        /\ now' = now + drift
        /\ cards' = UpdateAllPriorityScores(cards, k, now, now')
        /\ LET due == { id \in Ids : cards'[id].next_review_time <= now' }
           IN  \E s \in SortedSelections(cards', due) :
                   last' = Call("get_due_flashcards", 0, "", limit,
                                SubSeq(s, 1, Min(limit, Len(s))))
        /\ UNCHANGED <<hist, app>>

----------------------------------------------------------------------------
(* time passes with no call: until the next row falls due, or for half a   *)
(* day (longer than the ten hours after which the overdue bonus stops      *)
(* growing)                                                                *)
LongIdle == Hours(12)

UpcomingDue == { cards[id].next_review_time : id \in Ids } \ (0..now)

Earliest(S) == CHOOSE t \in S : \A u \in S : t <= u

Tick ==
    /\ steps < MaxSteps
    /\ steps' = steps + 1
    /\ \/ /\ UpcomingDue # {}
          /\ now' = Earliest(UpcomingDue)
       \/ now' = now + LongIdle
    /\ last' = NoCall
    /\ UNCHANGED <<cards, hist, app>>

Next ==
    \/ CreateFlashcard
    \/ InsertWordToDatabase
    \/ \E id \in 1..(Len(cards) + 1), result \in Results :
          UpdateFlashcardAfterReview(id, result)
    \/ \E limit \in Limits : GetDueFlashcards(limit)
    \/ Tick

Spec == Init /\ [][Next]_vars

----------------------------------------------------------------------------
(* The review orchestrator: ReviewerScheduleMaker, the pre-review          *)
(* notification, the reviewer window and the triggers of DripApp           *)

Max(a, b) == IF a >= b THEN a ELSE b

(* variant: the wait for the next due row is not clamped *)
NextTestInterval_Unclamped(due_count, has_next, seconds) ==
    IF due_count = 0
    THEN IF has_next THEN seconds \div 60 ELSE 5
    ELSE IF due_count <= 5 THEN 5 ELSE 3

(* the branches of calculate_next_test_interval on what its two queries    *)
(* give: the number of due rows, whether a row is due later and, if so,    *)
(* in how many seconds (int() drops the fraction of a minute)              *)
NextTestInterval(due_count, has_next, seconds) ==
    IF due_count = 0
    THEN IF has_next THEN Min(Max(5, seconds \div 60), 60) ELSE 5
    ELSE IF due_count <= 5 THEN 5 ELSE 3

SecondsPerQuarter == 3600 \div QuartersPerHour

(* calculate_next_test_interval: minutes until the next review pass *)
CalculateNextTestInterval(table, t) ==
    LET due_count == Cardinality({ id \in DOMAIN table : table[id].next_review_time <= t })
        upcoming == { table[id].next_review_time : id \in DOMAIN table } \ (0..t)
    IN  NextTestInterval(due_count, upcoming # {},
            IF upcoming # {} THEN (Earliest(upcoming) - t) * SecondsPerQuarter ELSE 0)

(* one call of update_flashcard_after_review on a table *)
ReviewedTable(table, flashcard_id, result, t) ==
    IF flashcard_id \in DOMAIN table
    THEN [table EXCEPT ![flashcard_id] =
             UpdatePriorityScore(ReviewedRow(table[flashcard_id], result, t), t)]
    ELSE table

ReviewedHist(h, table, flashcard_id, result, t) ==
    IF flashcard_id \in DOMAIN table
    THEN [h EXCEPT ![flashcard_id] =
             HistAfter(h[flashcard_id], table[flashcard_id], result, t)]
    ELSE h

(* update_flashcard_results: the results are applied in the order of the   *)
(* dict; the call that raises (number fail_at, if any) ends the loop        *)
RECURSIVE UpdateFlashcardResults(_, _, _, _)
UpdateFlashcardResults(table, results, t, fail_at) ==
    IF results = <<>> \/ fail_at = 1 THEN table
    ELSE UpdateFlashcardResults(
             ReviewedTable(table, Head(results).id, Head(results).result, t),
             Tail(results), t, fail_at - 1)

RECURSIVE HistAfterResults(_, _, _, _, _)
HistAfterResults(h, table, results, t, fail_at) ==
    IF results = <<>> \/ fail_at = 1 THEN h
    ELSE HistAfterResults(
             ReviewedHist(h, table, Head(results).id, Head(results).result, t),
             ReviewedTable(table, Head(results).id, Head(results).result, t),
             Tail(results), t, fail_at - 1)

(* no call raises *)
NoFailure(results) == Len(results) + 1

(* is_review_in_progress *)
IsReviewInProgress ==
    app.notification = "visible" \/ app.reviewer = "visible"

Top == app.frames[Len(app.frames)]
Waiting(pc) == app.frames # <<>> /\ Top.pc = pc
Pop(frames) == SubSeq(frames, 1, Len(frames) - 1)

Returned(ok, table, t) ==
    << [ ok |-> ok, delay |-> CalculateNextTestInterval(table, t) ] >>

(* the rows of a batch as the orchestrator holds them: the id and the      *)
(* stage the due query read                                                *)
Batch(table, ret) ==
    [ i \in 1..Len(ret) |-> [ id |-> ret[i], stage_id |-> table[ret[i]].stage_id ] ]

(* variant: the session goes on with an empty batch *)
SessionHasWork_Always(due_flashcards) == TRUE

(* start_review_session: "if not due_flashcards: return False, ..." *)
SessionHasWork(due_flashcards) == due_flashcards # <<>>

(* start_review_session up to the wait for the notification: the due       *)
(* query, the pending batch, the notification window (an older one is      *)
(* closed with its signals disconnected).  Entering costs one step.        *)
StartReviewSession(by) ==
    \E drift \in 0..MaxDrift, k \in 0..Len(cards) :
        /\ drift = 0 => k = Len(cards)
        /\ steps + drift <= MaxSteps
        /\ now' = now + drift
        /\ cards' = UpdateAllPriorityScores(cards, k, now, now')
        /\ UNCHANGED hist
        /\ LET due == { id \in Ids : cards'[id].next_review_time <= now' }
           IN  \E s \in SortedSelections(cards', due) :
                 LET due_flashcards == SubSeq(s, 1, Min(SessionLimit, Len(s)))
                 IN  /\ last' = Call(by, 0, "", SessionLimit, due_flashcards)
                     /\ IF SessionHasWork(due_flashcards)
                        THEN /\ steps + drift < MaxSteps
                             /\ steps' = steps + drift + 1
                             /\ app' = [app EXCEPT
                                    !.pending = Batch(cards', due_flashcards),
                                    !.notification = "visible",
                                    !.frames = Append(@, [pc |-> "notify"])]
                        ELSE /\ steps' = steps + drift
                             /\ app' = [app EXCEPT
                                    !.returned = Returned(FALSE, cards', now')]

(* DripApp.start_automatic_review: the timer's pass, put off while a       *)
(* window of a session is visible                                          *)
StartAutomaticReview ==
    IF IsReviewInProgress
    THEN /\ last' = Call("start_automatic_review", 0, "deferred", 0, <<>>)
         /\ UNCHANGED <<now, cards, hist, steps, app>>
    ELSE StartReviewSession("start_automatic_review")

(* DripApp.start_manual_review: the hotkey's pass *)
StartManualReview == StartReviewSession("start_manual_review")

(* the end of show_pre_review_notification once its wait is over, from the *)
(* orchestrator state a: results, if any, are applied and the call returns *)
SessionReturns(a, fail_at) ==
    /\ IF a.results # <<>>
       THEN /\ cards' = UpdateFlashcardResults(cards, a.results, now, fail_at)
            /\ hist' = HistAfterResults(hist, cards, a.results, now, fail_at)
            /\ app' = [a EXCEPT !.frames = Pop(@),
                                !.returned = Returned(TRUE, cards', now)]
       ELSE /\ UNCHANGED <<cards, hist>>
            /\ app' = [a EXCEPT !.frames = Pop(@),
                                !.returned = Returned(FALSE, cards, now)]
    /\ UNCHANGED <<now, steps>>

(* PreReviewNotification.accept_review -> proceed_with_review ->            *)
(* execute_review_session up to its wait: a fresh reviewer window shows    *)
(* the pending batch; started is FALSE when start_review raises and no     *)
(* window is shown                                                         *)
ProceedWithReview(started) ==
    /\ Waiting("notify")
    /\ app.notification = "visible"
    /\ app' = [app EXCEPT
           !.notification = "hidden",
           !.reviewer = IF started THEN "visible" ELSE "hidden",
           !.batch = IF started THEN app.pending ELSE <<>>,
           !.results = <<>>,
           !.frames = [@ EXCEPT ![Len(@)] = [pc |-> "review"]]]
    /\ last' = Call("proceed_with_review", 0, "", 0, <<>>)
    /\ UNCHANGED <<now, cards, hist, steps>>

(* variant: a postponed batch leaves no results *)
TimeoutResults_None(pending) == <<>>

(* postpone_review: every pending row is marked "TIMEOUT" *)
TimeoutResults(pending) ==
    [ i \in 1..Len(pending) |-> [ id |-> pending[i].id, result |-> "TIMEOUT" ] ]

(* PreReviewNotification.decline_review, handle_timeout, closeEvent ->      *)
(* postpone_review, then the end of show_pre_review_notification           *)
PostponeReview(fail_at) ==
    /\ Waiting("notify")
    /\ app.notification = "visible"
    /\ SessionReturns([app EXCEPT !.notification = "hidden",
                                  !.results = TimeoutResults(app.pending),
                                  !.pending = <<>>], fail_at)
    /\ last' = Call("postpone_review", 0, "", 0, <<>>)

(* what the reviewer offers at a stage: stage 1 only has "Got it" *)
Answers(stage_id) == IF stage_id = 1 THEN {"True"} ELSE {"True", "False"}

Outcome(batch, f) ==
    [ i \in 1..Len(f) |-> [ id |-> batch[i].id, result |-> f[i] ] ]

(* the result maps ReviewerModule can emit for a batch.  A full run:       *)
(* every row answered, or rows answered up to a row that times out, is     *)
(* escaped or is on show when the window is closed, with every row after   *)
(* it marked "TIMEOUT" (handle_timeout, handle_escape_key, closeEvent,     *)
(* mark_remaining_as_timeout).  A failed run: record_result raises and     *)
(* finish_review emits the results recorded so far.                        *)
FullRuns(batch) ==
    { f \in [1..Len(batch) -> Results] :
        \E j \in 1..(Len(batch) + 1) :
            /\ \A i \in 1..Len(batch) : i < j => f[i] \in Answers(batch[i].stage_id)
            /\ j <= Len(batch) => f[j] \in NonAnswers
            /\ \A i \in 1..Len(batch) : i > j => f[i] = "TIMEOUT" }

FailedRuns(batch) ==
    UNION { { f \in [1..m -> {"True", "False"}] :
                \A i \in 1..m : f[i] \in Answers(batch[i].stage_id) } :
            m \in 1..(Len(batch) - 1) }

ReviewerResults(batch) ==
    { Outcome(batch, f) : f \in FullRuns(batch) \cup FailedRuns(batch) }

(* ReviewerModule.finish_review / closeEvent -> on_review_completed, the    *)
(* return of execute_review_session and proceed_with_review, then the end  *)
(* of show_pre_review_notification                                         *)
OnReviewCompleted(results, fail_at) ==
    /\ Waiting("review")
    /\ app.reviewer = "visible"
    /\ results \in ReviewerResults(app.batch)
    /\ SessionReturns([app EXCEPT !.reviewer = "hidden",
                                  !.results = results], fail_at)
    /\ last' = Call("on_review_completed", 0, "", 0, <<>>)

(* a wait loop is left: the notification wait because the notification    *)
(* is no longer visible (declined, or replaced by a later session's); the  *)
(* outcome wait of execute_review_session because current_session_results  *)
(* is not empty any more (a later session stored its results there) or, at *)
(* its timeout, because the reviewer never showed or was closed by a later *)
(* session.  Then show_pre_review_notification ends.                       *)
WaitEnds(fail_at) ==
    /\ \/ Waiting("notify") /\ app.notification # "visible"
       \/ Waiting("review") /\ (app.reviewer # "visible" \/ app.results # <<>>)
    /\ SessionReturns(app, fail_at)
    /\ last' = Call("wait_ends", 0, "", 0, <<>>)

NextApp ==
    \/ CreateFlashcard
    \/ Tick
    \/ StartAutomaticReview
    \/ StartManualReview
    \/ \E started \in BOOLEAN : ProceedWithReview(started)
    \/ PostponeReview(NoFailure(TimeoutResults(app.pending)))
    \/ \E results \in ReviewerResults(app.batch) :
          OnReviewCompleted(results, NoFailure(results))
    \/ WaitEnds(NoFailure(app.results))

SpecApp == Init /\ [][NextApp]_vars

----------------------------------------------------------------------------
(* Properties of the review state machine *)

UpdateCall(id, result) == Call("update_flashcard_after_review", id, result, 0, <<>>)

(* the step is the call update_flashcard_after_review(id, result) on an    *)
(* existing row (every action writes last, so last' names the step)        *)
Applied(id, result) == id \in Ids /\ last' = UpdateCall(id, result)

AppliedGraded(id) == Applied(id, "True") \/ Applied(id, "False")
AppliedNonAnswer(id) == Applied(id, "TIMEOUT") \/ Applied(id, "ESCAPE")

StageInRange == \A id \in Ids : cards[id].stage_id \in {1, 2, 3, 4}

StageStep ==
    \A id \in Ids :
        /\ Applied(id, "True") =>
              cards'[id].stage_id =
                  IF cards[id].stage_id = 4 THEN 4 ELSE cards[id].stage_id + 1
        /\ ~Applied(id, "True") => cards'[id].stage_id = cards[id].stage_id
        /\ cards'[id].stage_id >= cards[id].stage_id

(* C1: stage is always one of 1, 2, 3, 4; a Correct raises it by exactly   *)
(* 1, or leaves it at 4; no other outcome and no other operation changes   *)
(* it; it never decreases.                                                 *)
C1_StageMonotone == [][StageInRange /\ StageInRange' /\ StageStep]_vars

(* a Correct has just been applied to a row that was already at stage 4 *)
C1_Witness ==
    \E id \in Ids :
        /\ last = UpdateCall(id, "True")
        /\ cards[id].stage_id = 4
        /\ cards[id].correct_count = 4

(* C3: TIMEOUT or ESCAPE on a due row at stage 2-4 moves its               *)
(* next_review_time into the future (a cooldown), so that the row is not   *)
(* due immediately afterwards.                                             *)
C3_Cooldown ==
    [][\A id \in Ids :
          ( /\ AppliedNonAnswer(id)
            /\ cards[id].stage_id \in {2, 3, 4}
            /\ cards[id].next_review_time <= now )
          => cards'[id].next_review_time > now']_vars

(* C4: a Correct at stage s at time now sets stage min(s+1, 4), due time    *)
(* now + 1 h / 4 h / 36 h / 252 h for s = 1 / 2 / 3 / 4, lastOutcome       *)
(* correct, reviewCount and correctCount +1, incorrectCount unchanged.     *)
C4_CorrectHours(s) ==
    CASE s = 1 -> 1 [] s = 2 -> 4 [] s = 3 -> 36 [] s = 4 -> 252

C4_Correct ==
    [][\A id \in Ids : Applied(id, "True") =>
          /\ cards'[id].stage_id = Min(cards[id].stage_id + 1, 4)
          /\ cards'[id].next_review_time
                = now + QuartersPerHour * C4_CorrectHours(cards[id].stage_id)
          /\ cards'[id].correct = "True"
          /\ cards'[id].review_count = cards[id].review_count + 1
          /\ cards'[id].correct_count = cards[id].correct_count + 1
          /\ cards'[id].wrong_count = cards[id].wrong_count]_vars

(* a Correct has just been applied at stage 3: the row is due in 36 h *)
C4_Witness ==
    \E id \in Ids :
        /\ last = UpdateCall(id, "True")
        /\ cards[id].stage_id = 4
        /\ cards[id].correct_count = 3
        /\ cards[id].next_review_time = now + 36 * QuartersPerHour

(* C5: an Incorrect at stage s at time now leaves the stage, sets the due   *)
(* time to now + 0.25 h / 1 h / 12 h / 84 h for s = 1 / 2 / 3 / 4, sets    *)
(* lastOutcome incorrect, reviewCount and incorrectCount +1, correctCount  *)
(* unchanged.                                                              *)
C5_WrongQuarterHours(s) ==
    CASE s = 1 -> 1 [] s = 2 -> 4 [] s = 3 -> 48 [] s = 4 -> 336

C5_Incorrect ==
    [][\A id \in Ids : Applied(id, "False") =>
          /\ cards'[id].stage_id = cards[id].stage_id
          /\ cards'[id].next_review_time
                = now + C5_WrongQuarterHours(cards[id].stage_id)
          /\ cards'[id].correct = "False"
          /\ cards'[id].review_count = cards[id].review_count + 1
          /\ cards'[id].wrong_count = cards[id].wrong_count + 1
          /\ cards'[id].correct_count = cards[id].correct_count]_vars

(* an Incorrect has just been applied at stage 4: the row is due in 84 h *)
C5_Witness ==
    \E id \in Ids :
        /\ last = UpdateCall(id, "False")
        /\ cards[id].stage_id = 4
        /\ cards[id].next_review_time = now + 84 * QuartersPerHour

CountersConserved ==
    \A id \in Ids :
        /\ cards[id].review_count = hist[id].applied
        /\ cards[id].review_count =
              cards[id].correct_count + cards[id].wrong_count + hist[id].skipped

CountersStep ==
    \A id \in Ids :
        /\ cards'[id].review_count >= cards[id].review_count
        /\ cards'[id].correct_count >= cards[id].correct_count
        /\ cards'[id].wrong_count >= cards[id].wrong_count

(* C6: after N outcomes applied to one row, reviewCount = N and            *)
(* reviewCount = correctCount + incorrectCount + number of Timeout or      *)
(* Cancelled outcomes; no counter ever decreases.                          *)
C6_CounterConservation ==
    [][CountersConserved /\ CountersConserved' /\ CountersStep]_vars

(* a row that has received a Correct, an Incorrect and two non-answers *)
C6_Witness ==
    \E id \in Ids :
        /\ hist[id].applied = 4
        /\ hist[id].skipped = 2
        /\ cards[id].correct_count = 1
        /\ cards[id].wrong_count = 1

(* C7: only a Correct or an Incorrect changes lastOutcome; through a       *)
(* Timeout or Cancelled a row last graded Incorrect keeps lastOutcome      *)
(* incorrect and a stored score that contains the +30 boost, and a row     *)
(* never graded keeps lastOutcome unset.                                   *)
C7_LastOutcomeFrame ==
    [][\A id \in Ids :
          /\ cards'[id].correct # cards[id].correct => AppliedGraded(id)
          /\ (AppliedNonAnswer(id) /\ cards[id].correct = "False") =>
                /\ cards'[id].correct = "False"
                /\ cards'[id].priority_score >=
                      Points(30) + (IF cards[id].stage_id = 1
                                    THEN Points(120)
                                    ELSE Points(100 - 20 * (cards[id].stage_id - 1)))
          /\ (AppliedNonAnswer(id) /\ hist[id].applied = hist[id].skipped) =>
                cards'[id].correct = "NULL"]_vars

(* a row graded Incorrect that has since received two non-answers, the     *)
(* second just now                                                         *)
C7_Witness ==
    \E id \in Ids :
        /\ last.op = "update_flashcard_after_review"
        /\ last.id = id
        /\ last.result \in NonAnswers
        /\ cards[id].correct = "False"
        /\ cards[id].wrong_count = 1
        /\ hist[id].skipped = 2

----------------------------------------------------------------------------
(* Properties of the due query and the scorer *)

Range(seq) == { seq[i] : i \in 1..Len(seq) }

(* the step is a call of get_due_flashcards *)
DueQuery == last'.op = "get_due_flashcards"

FrameOfNonAnswer ==
    \A id \in Ids : AppliedNonAnswer(id) =>
        /\ cards'[id].next_review_time = cards[id].next_review_time
        /\ cards'[id].stage_id = cards[id].stage_id

StaysDue ==
    \A id \in Ids :
        (cards[id].next_review_time <= now /\ ~AppliedGraded(id))
        => cards'[id].next_review_time <= now'

C8_AtOrBefore(a, b) ==
    \/ a.priority_score > b.priority_score
    \/ /\ a.priority_score = b.priority_score
       /\ \/ a.stage_id < b.stage_id
          \/ /\ a.stage_id = b.stage_id
             /\ a.next_review_time <= b.next_review_time

(* C8: get_due_flashcards(limit) returns exactly min(limit, number of due  *)
(* rows) rows, all of them due, which are the first rows of the due rows   *)
(* sorted by score descending, stage ascending, due time ascending; every  *)
(* row's score is the scorer's value recomputed during this query.         *)
C8_DueQuery ==
    [][DueQuery =>
          LET ret == last'.ret
              due == { id \in Ids : cards'[id].next_review_time <= now' }
          IN  /\ Len(cards') = Len(cards)
              /\ \A id \in Ids : \E t \in now..now' :
                    cards'[id].priority_score = CalculatePriorityScore(cards[id], t)
              /\ Len(ret) = Min(last'.limit, Cardinality(due))
              /\ Range(ret) \subseteq due
              /\ \A i, j \in 1..Len(ret) :
                    i < j => /\ ret[i] # ret[j]
                             /\ C8_AtOrBefore(cards'[ret[i]], cards'[ret[j]])
              /\ \A x \in due \ Range(ret) : \A i \in 1..Len(ret) :
                    C8_AtOrBefore(cards'[ret[i]], cards'[x])]_vars

(* a query with limit 1 has just returned one of two due rows whose scores *)
(* differ                                                                  *)
C8_Witness ==
    /\ last.op = "get_due_flashcards"
    /\ last.limit = 1
    /\ Len(last.ret) = 1
    /\ \E a, b \in Ids :
          /\ cards[a].next_review_time <= now
          /\ cards[b].next_review_time <= now
          /\ cards[a].priority_score > cards[b].priority_score
          /\ cards[a].priority_score > Points(120)

(* a is returned, and b is not returned before it *)
RankedAtOrBefore(ret, a, b) ==
    \E i \in 1..Len(ret) :
        /\ ret[i] = a
        /\ \A j \in 1..Len(ret) : ret[j] = b => i < j

(* C9 as claimed: of two due rows at the same stage, the one due earlier    *)
(* is ranked at or before the other, whatever their lastOutcome.           *)
C9_Original ==
    last.op = "get_due_flashcards" =>
        \A a, b \in Ids :
            ( /\ cards[a].stage_id = cards[b].stage_id
              /\ cards[a].next_review_time < cards[b].next_review_time
              /\ cards[b].next_review_time <= now
              /\ b \in Range(last.ret) )
            => RankedAtOrBefore(last.ret, a, b)

(* C9 amended: of two due rows at the same stage that are both or neither  *)
(* last graded Incorrect and whose scores were recomputed at the same      *)
(* clock reading, the one due earlier is ranked at or before the other.    *)
C9_EarlierDueFirst ==
    [][DueQuery =>
          \A a, b \in Ids :
              ( /\ cards'[a].stage_id = cards'[b].stage_id
                /\ (cards'[a].correct = "False") = (cards'[b].correct = "False")
                /\ cards'[a].next_review_time < cards'[b].next_review_time
                /\ cards'[b].next_review_time <= now'
                /\ b \in Range(last'.ret)
                /\ \E t \in now..now' :
                      /\ cards'[a].priority_score = CalculatePriorityScore(cards[a], t)
                      /\ cards'[b].priority_score = CalculatePriorityScore(cards[b], t) )
              => RankedAtOrBefore(last'.ret, a, b)]_vars

(* a query has just returned two due rows of the same stage and the same   *)
(* lastOutcome, the earlier due one with the higher score                  *)
C9_Witness ==
    /\ last.op = "get_due_flashcards"
    /\ \E a, b \in Range(last.ret) :
          /\ cards[a].stage_id = cards[b].stage_id
          /\ cards[a].correct = cards[b].correct
          /\ cards[a].next_review_time < cards[b].next_review_time
          /\ cards[a].priority_score > cards[b].priority_score

C10_Base(stage) == CASE stage = 1 -> 100 [] stage = 2 -> 80
                     [] stage = 3 -> 60 [] stage = 4 -> 40

(* base + overdueBonus + wrongBoost + freshness, in quarter points, with   *)
(* the time overdue in quarter hours                                       *)
C10_Score(flashcard, t) ==
    LET overdue == IF flashcard.next_review_time <= t
                   THEN t - flashcard.next_review_time ELSE 0
        overdueBonus == IF 5 * overdue <= 4 * 50 THEN 5 * overdue ELSE 4 * 50
        wrongBoost == IF flashcard.correct = "False" THEN 30 ELSE 0
        freshness == IF flashcard.stage_id = 1 THEN 20 ELSE 0
    IN  4 * C10_Base(flashcard.stage_id) + overdueBonus
            + 4 * wrongBoost + 4 * freshness

(* C10: the score of a row at time now is base(stage) + overdueBonus       *)
(* + wrongBoost + freshness, and lies between 40 and 200.                  *)
C10_ScoreFormula ==
    \A id \in Ids :
        /\ CalculatePriorityScore(cards[id], now) = C10_Score(cards[id], now)
        /\ CalculatePriorityScore(cards[id], now) >= 4 * 40
        /\ CalculatePriorityScore(cards[id], now) <= 4 * 200
        /\ cards[id].priority_score >= 4 * 40
        /\ cards[id].priority_score <= 4 * 200

(* a stage-1 row last graded Incorrect and more than 10 h overdue scores   *)
(* 200, next to a stage-2 row not yet due that scores its base, 80         *)
C10_Witness ==
    \E a, b \in Ids :
        /\ now - cards[a].next_review_time > 10 * QuartersPerHour
        /\ CalculatePriorityScore(cards[a], now) = 4 * 200
        /\ cards[a].priority_score = 4 * 200
        /\ cards[b].stage_id = 2
        /\ cards[b].next_review_time > now
        /\ cards[b].priority_score = 4 * 80

----------------------------------------------------------------------------
(* Properties of the stored score and of creation *)

Created == last'.op = "create_flashcard"

(* the rows the step wrote: the new row of a create, the row of an update  *)
(* of an existing id, every row of a due query                             *)
WrittenBy ==
    IF Created THEN { Len(cards') }
    ELSE IF last'.op = "update_flashcard_after_review" THEN { last'.id } \cap Ids
    ELSE IF DueQuery THEN Ids
    ELSE {}

ScoredDuringStep(id) ==
    \E t \in now..now' :
        cards'[id].priority_score = CalculatePriorityScore(cards'[id], t)

(* C11 as claimed: after create_flashcard, update_flashcard_after_review   *)
(* or get_due_flashcards, the stored score of every row the operation      *)
(* wrote is the scorer's value at the time of the operation.               *)
C11_Original == [][\A id \in WrittenBy : ScoredDuringStep(id)]_vars

(* C11 amended: a stored score changes only in update_flashcard_after_     *)
(* review and get_due_flashcards, and after either the stored score of     *)
(* every row it wrote is the scorer's value at a clock reading of the      *)
(* operation; create_flashcard stores the seed 100, not the scorer's value.*)
C11_ScoreFromScorer ==
    [][/\ \A id \in WrittenBy :
             IF Created THEN cards'[id].priority_score = Points(100)
             ELSE ScoredDuringStep(id)
       /\ \A id \in Ids \ WrittenBy :
             cards'[id].priority_score = cards[id].priority_score]_vars

(* an Incorrect has just been applied to a stage-1 row: the stored score   *)
(* is the scorer's 150, no longer the seed                                 *)
C11_Witness ==
    \E id \in Ids :
        /\ last = UpdateCall(id, "False")
        /\ cards[id].stage_id = 1
        /\ cards[id].priority_score = CalculatePriorityScore(cards[id], now)
        /\ cards[id].priority_score = Points(150)

Inserted == last'.op = "insert_word_to_database"

Ungraded(flashcard) == flashcard.correct_count = 0 /\ flashcard.wrong_count = 0

(* C12: a row just created by create_flashcard or by the loader has stage  *)
(* 1, due time = creation time + 30 minutes, stored score 100, lastOutcome *)
(* unset and all counters 0; and while no Correct or Incorrect has been    *)
(* applied to it, no due query made earlier than 30 minutes after its      *)
(* creation returns it.                                                    *)
C12_NewItem ==
    [][/\ (Created \/ Inserted) =>
             LET new == cards'[Len(cards')]
             IN  /\ Len(cards') = Len(cards) + 1
                 /\ new.stage_id = 1
                 /\ new.created_at = now
                 /\ new.next_review_time = new.created_at + 2
                 /\ new.priority_score = 4 * 100
                 /\ new.correct = "NULL"
                 /\ new.review_count = 0
                 /\ new.correct_count = 0
                 /\ new.wrong_count = 0
       /\ DueQuery =>
             \A id \in Ids :
                 (Ungraded(cards[id]) /\ now' < cards[id].created_at + 2)
                 => id \notin Range(last'.ret)]_vars

(* a due query has just returned an older row and left out a row created  *)
(* less than 30 minutes ago                                                *)
C12_Witness ==
    /\ last.op = "get_due_flashcards"
    /\ Len(last.ret) = 1
    /\ \E id \in Ids :
          /\ cards[id].review_count = 0
          /\ now < cards[id].created_at + 2
          /\ id \notin Range(last.ret)

----------------------------------------------------------------------------
(* Properties of a review session *)

(* the step is an entry into start_review_session *)
SessionEntered ==
    /\ last'.op \in {"start_automatic_review", "start_manual_review"}
    /\ last'.result # "deferred"

SchedulingKept(id) ==
    /\ cards'[id].stage_id = cards[id].stage_id
    /\ cards'[id].next_review_time = cards[id].next_review_time
    /\ cards'[id].review_count = cards[id].review_count
    /\ cards'[id].correct_count = cards[id].correct_count
    /\ cards'[id].wrong_count = cards[id].wrong_count

(* C13: when no row is due, start_review_session returns (False, the       *)
(* store's delay) without creating or showing the notification or the      *)
(* reviewer window and without changing any row's stage, counters or due   *)
(* time.                                                                   *)
C13_NothingDue ==
    [][(SessionEntered /\ \A id \in Ids : cards[id].next_review_time > now')
       => /\ app'.returned =
                << [ ok |-> FALSE, delay |-> CalculateNextTestInterval(cards', now') ] >>
          /\ app'.returned[1].delay \in 3..60
          /\ app'.frames = app.frames
          /\ app'.notification = app.notification
          /\ app'.reviewer = app.reviewer
          /\ app'.pending = app.pending
          /\ Len(cards') = Len(cards)
          /\ \A id \in Ids : SchedulingKept(id)]_vars

(* a manual pass has just returned (False, 30): the only row is due in 30  *)
(* minutes and no window was ever created                                  *)
C13_Witness ==
    /\ last.op = "start_manual_review"
    /\ last.ret = <<>>
    /\ Len(cards) = 1
    /\ app.returned = << [ ok |-> FALSE, delay |-> 30 ] >>
    /\ app.notification = "none"
    /\ app.reviewer = "none"

(* the step is a decline of the notification (Not Now, ESC, window close,  *)
(* its own timeout), all of which end in postpone_review                   *)
Declined == last'.op = "postpone_review"

PendingIds == { app.pending[i].id : i \in 1..Len(app.pending) }

NonAnswerUpdate(id) ==
    /\ cards'[id].review_count = cards[id].review_count + 1
    /\ cards'[id].stage_id = cards[id].stage_id
    /\ cards'[id].next_review_time = cards[id].next_review_time
    /\ cards'[id].correct = cards[id].correct
    /\ cards'[id].correct_count = cards[id].correct_count
    /\ cards'[id].wrong_count = cards[id].wrong_count

(* the decline itself: one non-answer update per pending row, no other row *)
(* touched, the reviewer window left as it was                             *)
DeclineStep ==
    Declined =>
        /\ \A id \in PendingIds : NonAnswerUpdate(id)
        /\ \A id \in Ids \ PendingIds : cards'[id] = cards[id]
        /\ app'.reviewer = app.reviewer
        /\ app'.batch = app.batch

(* C14: declining the notification or letting it time out gives every      *)
(* pending row of the batch exactly one non-answer update (review_count    *)
(* + 1; stage, due time and last outcome as they were) without the         *)
(* reviewer being started: the decline applies one update per row and the  *)
(* return that follows it applies none                                     *)
C14_Declined ==
    [][/\ DeclineStep
       /\ (last.op = "postpone_review" /\ last'.op = "wait_ends")
             => \A id \in Ids : cards'[id].review_count = cards[id].review_count]_vars

(* the step ends a call of start_review_session that showed a notification *)
SessionReturned ==
    last'.op \in {"postpone_review", "on_review_completed", "wait_ends"}

(* C15: the first component returned by start_review_session is True only  *)
(* when the learner accepted the notification and the reviewer produced    *)
(* results; after a decline or a timeout of the notification the call      *)
(* returns False together with the store's next delay                      *)
C15_Outcome ==
    [][SessionReturned =>
         /\ app'.returned[1].delay = CalculateNextTestInterval(cards', now')
         /\ app'.returned[1].ok => last'.op = "on_review_completed"
         /\ Declined => ~app'.returned[1].ok]_vars

(* the rows for which the step's result map carries an outcome *)
Delivered == { app'.results[i].id : i \in 1..Len(app'.results) }

(* C16: when a session whose batch was handed to the reviewer ends, by     *)
(* whatever early termination, every row of the batch for which the        *)
(* reviewer delivered no outcome is recorded as a Timeout (review_count    *)
(* + 1) with its due time unchanged                                        *)
C16_Remaining ==
    [][(Waiting("review") /\ SessionReturned)
          => \A id \in PendingIds \ Delivered : NonAnswerUpdate(id)]_vars

-----------------------------------------------------------------------------
(* Sessions with persistence failures: update_flashcard_after_review has   *)
(* no exception handler of its own, so an sqlite3 error in call number     *)
(* fail_at of update_flashcard_results reaches the handler around the      *)
(* whole loop.                                                             *)

FailAt(results) == 1..(Len(results) + 1)

NextFault ==
    \/ CreateFlashcard
    \/ Tick
    \/ StartAutomaticReview
    \/ StartManualReview
    \/ \E started \in BOOLEAN : ProceedWithReview(started)
    \/ \E fail_at \in FailAt(TimeoutResults(app.pending)) : PostponeReview(fail_at)
    \/ \E results \in ReviewerResults(app.batch) :
          \E fail_at \in FailAt(results) : OnReviewCompleted(results, fail_at)
    \/ \E fail_at \in FailAt(app.results) : WaitEnds(fail_at)

SpecFault == Init /\ [][NextFault]_vars

(* the rows of the step's result map that the step left without an update *)
NotApplied == { id \in Delivered : cards'[id].review_count = cards[id].review_count }

(* C17: when a session's outcomes are applied, a persistence failure on    *)
(* one row does not keep the other rows of the result map from being       *)
(* updated: at most the failing row is left as it was                      *)
C17_Siblings ==
    [][SessionReturned => Cardinality(NotApplied) <= 1]_vars

(* C18: under every interleaving of timer passes, retries and manual       *)
(* triggers at most one review session is in flight: start_review_session  *)
(* is never entered again before the running call has returned             *)
C18_OneSession == Len(app.frames) <= 1

-----------------------------------------------------------------------------
(* The store with interrupted updates: update_flashcard_after_review       *)
(* commits its UPDATE and only then calls _update_priority_score, which    *)
(* opens a connection and a transaction of its own.  A process that stops  *)
(* before the commit leaves the row as it was (the step stutters); one     *)
(* that stops between the two transactions leaves the first one's row.     *)

InterruptedUpdate(flashcard_id, result) ==
    /\ flashcard_id \in Ids
    /\ steps < MaxSteps
    /\ steps' = steps + 1
    /\ last' = Call("update_flashcard_after_review", flashcard_id, result, 0, <<>>)
    /\ cards' = [cards EXCEPT ![flashcard_id] = ReviewedRow(@, result, now)]
    /\ hist' = [hist EXCEPT ![flashcard_id] = HistAfter(@, cards[flashcard_id], result, now)]
    /\ UNCHANGED <<now, app>>

NextCrash ==
    \/ Next
    \/ \E id \in Ids, result \in Results : InterruptedUpdate(id, result)

SpecCrash == Init /\ [][NextCrash]_vars

(* C19: update_flashcard_after_review is atomic per row: whenever the call *)
(* stops, the stored row is either the row before the call or the whole    *)
(* row after it, stored priority_score included                            *)
C19_Atomic ==
    [][last'.op = "update_flashcard_after_review" /\ last'.id \in Ids
          => cards'[last'.id] \in
                { cards[last'.id],
                  ReviewedTable(cards, last'.id, last'.result, now)[last'.id] }]_vars

-----------------------------------------------------------------------------
(* The contextual samplers of the multiple-choice stages.  Here a row of   *)
(* the table is its text columns, word and meaning; the samplers read      *)
(* nothing else.                                                           *)

(* rows in the table of the sampler runs *)
MaxWords == 3

(* "apple" and "a loyal pet animal" also stand in the built-in lists *)
Words == {"apple", "pear"}
Meanings == {"a loyal pet animal", "a sour fruit"}
Counts == {2, 3}

(* the window of neighbouring ids on either side of the target *)
Neighbourhood == 10

default_words ==
    << "apple", "book", "cat", "dog", "elephant",
       "flower", "guitar", "house", "computer", "phone",
       "chair", "table", "water", "coffee", "music",
       "movie", "garden", "window", "door", "street" >>

default_meanings ==
    << "a red fruit that grows on trees",
       "an object with pages for reading",
       "a small animal that says meow",
       "a loyal pet animal",
       "a large gray animal with a trunk",
       "a colorful plant that blooms",
       "a musical instrument with strings",
       "a building where people live",
       "a yellow fruit that monkeys like",
       "a vehicle with four wheels",
       "a device for communication",
       "a piece of furniture for sitting",
       "a liquid that falls from the sky",
       "a bright object in the sky",
       "a green plant that grows in lawns",
       "a tool for writing",
       "a container for drinking",
       "a place where people work",
       "a time when the sun sets",
       "a feeling of happiness" >>

(* the sequences of k different elements of S *)
Arrangements(S, k) ==
    { s \in [1..k -> S] : \A i, j \in 1..k : s[i] = s[j] => i = j }

(* the ids of a set in ascending order *)
RECURSIVE Ascending(_)
Ascending(S) ==
    IF S = {} THEN <<>>
    ELSE LET least == CHOOSE x \in S : \A y \in S : x <= y
         IN  <<least>> \o Ascending(S \ {least})

(* the first query: WHERE id != ? AND id within 10 before or 10 after *)
NeighbourIds(texts, exclude_id) ==
    { id \in DOMAIN texts :
        /\ id # exclude_id
        /\ \/ id >= Max(1, exclude_id - Neighbourhood) /\ id <= exclude_id - 1
           \/ id >= exclude_id + 1 /\ id <= exclude_id + Neighbourhood }

(* variant: the second query finds no row *)
Additional_None(texts, exclude_id, found, count) == { <<>> }

(* the second query, run when the first gave fewer than count: rows other  *)
(* than the target whose text is not yet in the list, in random order,     *)
(* LIMIT count - len                                                       *)
Additional(texts, exclude_id, found, count) ==
    IF Len(found) >= count THEN { <<>> }
    ELSE LET far == { id \in DOMAIN texts :
                        id # exclude_id /\ texts[id] \notin Range(found) }
             k == Min(count - Len(found), Cardinality(far))
         IN  { [ i \in 1..k |-> texts[a[i]] ] : a \in Arrangements(far, k) }

(* the built-in list fills the result up to count, skipping what is there *)
RECURSIVE WithDefaults(_, _, _)
WithDefaults(found, defaults, count) ==
    IF Len(found) >= count \/ defaults = <<>> THEN found
    ELSE WithDefaults(
             IF Head(defaults) \in Range(found) THEN found
             ELSE Append(found, Head(defaults)),
             Tail(defaults), count)

(* random.shuffle followed by [:count] *)
Shuffled(found, count) ==
    { [ i \in 1..Min(count, Len(found)) |-> found[a[i]] ] :
        a \in Arrangements(1..Len(found), Min(count, Len(found))) }

(* the lists a sampler can have collected before it shuffles *)
Collected(texts, defaults, exclude_id, count) ==
    LET ids == Ascending(NeighbourIds(texts, exclude_id))
        found == [ i \in 1..Len(ids) |-> texts[ids[i]] ]
    IN  { WithDefaults(found \o more, defaults, count) :
          more \in Additional(texts, exclude_id, found, count) }

(* what a sampler can return over one text column *)
Contextual(texts, defaults, exclude_id, count) ==
    UNION { Shuffled(list, count) :
            list \in Collected(texts, defaults, exclude_id, count) }

WordColumn == [ id \in DOMAIN cards |-> cards[id].word ]
MeaningColumn == [ id \in DOMAIN cards |-> cards[id].meaning ]

(* create_flashcard, as far as the text columns go *)
CreateWord ==
    /\ Len(cards) < MaxWords
    /\ \E word \in Words, meaning \in Meanings :
          cards' = Append(cards, [ word |-> word, meaning |-> meaning ])
    /\ last' = Call("create_flashcard", Len(cards) + 1, "", 0, <<>>)
    /\ UNCHANGED <<now, hist, steps, app>>

GetContextualWordsForStage3(exclude_id, count) ==
    /\ \E ret \in Contextual(WordColumn, default_words, exclude_id, count) :
          last' = Call("get_contextual_words_for_stage3", exclude_id, "", count, ret)
    /\ UNCHANGED <<now, cards, hist, steps, app>>

GetContextualMeaningsForStage2(exclude_id, count) ==
    /\ \E ret \in Contextual(MeaningColumn, default_meanings, exclude_id, count) :
          last' = Call("get_contextual_meanings_for_stage2", exclude_id, "", count, ret)
    /\ UNCHANGED <<now, cards, hist, steps, app>>

NextWords ==
    \/ CreateWord
    \/ \E exclude_id \in DOMAIN cards, count \in Counts :
          GetContextualWordsForStage3(exclude_id, count)
    \/ \E exclude_id \in DOMAIN cards, count \in Counts :
          GetContextualMeaningsForStage2(exclude_id, count)

SpecWords == Init /\ [][NextWords]_vars

(* C20: the list a sampler returns for a target row never holds the        *)
(* target's own word (stage 3) or its own meaning (stage 2), also when     *)
(* another row or the built-in list carries the same text                  *)
C20_Exclusive ==
    /\ last.op = "get_contextual_words_for_stage3"
          => cards[last.id].word \notin Range(last.ret)
    /\ last.op = "get_contextual_meanings_for_stage2"
          => cards[last.id].meaning \notin Range(last.ret)

-----------------------------------------------------------------------------
(* The timer's pass with failing store calls.  The pass is taken as a      *)
(* whole, from start_automatic_review to the re-arming of review_timer,    *)
(* the learner's part of a session included, all at one reading of the     *)
(* clock.  fault names the store calls that raise during the pass ("" when *)
(* none does):                                                             *)
(*   "get_due_flashcards"            the due query of start_review_session *)
(*   "calculate_next_test_interval"  every delay computation made inside   *)
(*                                   start_review_session, its handlers'   *)
(*                                   included                              *)
(*   "schedule_next_review"          the delay computation of              *)
(*                                   schedule_next_review                  *)
(*   "database"                      every store call of the pass          *)

Faults ==
    { "get_due_flashcards", "calculate_next_test_interval",
      "schedule_next_review", "database" }

(* schedule_next_review's "Fallback to 30 minutes" *)
FallbackDelay == 30

(* variant: a failed computation leaves the timer unarmed *)
ScheduleNextReview_NoFallback(table, t, failed) ==
    IF failed THEN 0 ELSE CalculateNextTestInterval(table, t)

(* schedule_next_review: the delay review_timer is started with *)
ScheduleNextReview(table, t, failed) ==
    IF failed THEN FallbackDelay ELSE CalculateNextTestInterval(table, t)

(* what the learner and the reviewer can make of a batch: a decline, the   *)
(* reviewer's result maps, or no result at all                             *)
SessionOutcomes(batch) ==
    { TimeoutResults(batch), <<>> } \cup ReviewerResults(batch)

(* the pass once the store after start_review_session is known: raised    *)
(* tells that start_review_session ended with an exception, which          *)
(* start_automatic_review catches                                          *)
PassEnds(fault, due_flashcards, ok, raised) ==
    /\ last' = Call("start_automatic_review", 0, fault, SessionLimit, due_flashcards)
    /\ app' = [app EXCEPT
           !.returned = IF raised THEN <<>> ELSE Returned(ok, cards', now'),
           !.timer = ScheduleNextReview(cards', now',
                        fault \in {"schedule_next_review", "database"})]

AutomaticPass(fault) ==
    /\ ~IsReviewInProgress
    /\ IF fault \in {"get_due_flashcards", "database"}
       THEN /\ \E scored \in BOOLEAN :
                 cards' = IF scored
                          THEN UpdateAllPriorityScores(cards, Len(cards), now, now)
                          ELSE cards
            /\ UNCHANGED <<now, hist, steps>>
            /\ PassEnds(fault, <<>>, FALSE, fault = "database")
       ELSE /\ UNCHANGED now
            /\ LET table == UpdateAllPriorityScores(cards, Len(cards), now, now)
                   due == { id \in Ids : table[id].next_review_time <= now }
               IN  \E s \in SortedSelections(table, due) :
                     LET due_flashcards == SubSeq(s, 1, Min(SessionLimit, Len(s)))
                     IN  IF SessionHasWork(due_flashcards)
                         THEN /\ steps < MaxSteps
                              /\ steps' = steps + 1
                              /\ \E results \in SessionOutcomes(Batch(table, due_flashcards)) :
                                   /\ cards' = UpdateFlashcardResults(table, results, now,
                                                                      NoFailure(results))
                                   /\ hist' = HistAfterResults(hist, table, results, now,
                                                               NoFailure(results))
                                   /\ PassEnds(fault, due_flashcards, results # <<>>,
                                               fault = "calculate_next_test_interval")
                         ELSE /\ UNCHANGED <<steps, hist>>
                              /\ cards' = table
                              /\ PassEnds(fault, due_flashcards, FALSE,
                                          fault = "calculate_next_test_interval")

NextPass ==
    \/ CreateFlashcard
    \/ Tick
    \/ \E fault \in Faults \cup {""} : AutomaticPass(fault)

SpecPass == Init /\ [][NextPass]_vars

(* the step is a pass of the timer in which a store call failed *)
FailedPass == last'.op = "start_automatic_review" /\ last'.result \in Faults

(* C21 as stated: whenever the due query or a delay computation fails in   *)
(* a pass, review_timer is re-armed with the fallback delay of 30 minutes  *)
C21_Original ==
    [][FailedPass => app'.timer = FallbackDelay]_vars

(* C21: a failure of the due query or of a delay computation stays within  *)
(* the pass and review_timer is re-armed so that a later pass takes place: *)
(* with the fallback delay of 30 minutes when the delay computation of     *)
(* schedule_next_review fails, with the computed delay when it succeeds    *)
C21_Rearmed ==
    [][FailedPass =>
         /\ app'.timer \in 3..60
         /\ app'.timer = IF last'.result \in {"schedule_next_review", "database"}
                         THEN FallbackDelay
                         ELSE CalculateNextTestInterval(cards', now')]_vars

(* a pass in which every store call failed left the timer at 30 minutes,   *)
(* with a row in the store that is due                                     *)
C21_Witness ==
    /\ last.op = "start_automatic_review"
    /\ last.result = "database"
    /\ app.timer = FallbackDelay
    /\ \E id \in Ids : cards[id].next_review_time <= now

-----------------------------------------------------------------------------
(* calculate_next_test_interval over stores of any size, with the wait for *)
(* the next due row measured in seconds.  A call is described by what its  *)
(* two queries find in the store.                                          *)

(* due rows in the store *)
MaxDue == 7

(* minutes until the next row is due *)
MaxMinutes == 62

(* waits at both ends of every minute *)
Waits == { m * 60 + r : m \in 0..MaxMinutes, r \in {0, 59} }

CalculateNextTestIntervalOn(due_count, has_next, seconds) ==
    /\ has_next \/ seconds = 0
    /\ last' = Call("calculate_next_test_interval", due_count,
                    IF has_next THEN "next" ELSE "", seconds,
                    << NextTestInterval(due_count, has_next, seconds) >>)
    /\ UNCHANGED <<now, cards, hist, steps, app>>

NextInterval ==
    \E due_count \in 0..MaxDue, has_next \in BOOLEAN, seconds \in Waits \cup {0} :
        CalculateNextTestIntervalOn(due_count, has_next, seconds)

SpecInterval == Init /\ [][NextInterval]_vars

IntervalCall == last.op = "calculate_next_test_interval"

(* C22: the delay never grows with the number of due rows; with no row due *)
(* and the next one due in d minutes it is d without its fraction, kept    *)
(* within 5..60; every delay is within 3..60                               *)
C22_Delay ==
    IntervalCall =>
        /\ last.ret[1] \in 3..60
        /\ (last.id = 0 /\ last.result = "next") =>
              LET d == last.limit \div 60
              IN  last.ret[1] = IF d < 5 THEN 5 ELSE IF d > 60 THEN 60 ELSE d
        /\ \A due_count \in 0..MaxDue, has_next \in BOOLEAN, seconds \in Waits :
              due_count > last.id
                 => NextTestInterval(due_count, has_next, seconds) <= last.ret[1]

(* nothing due, the next row due in 20 minutes and 59 seconds: 20 minutes *)
C22_Witness ==
    /\ IntervalCall
    /\ last.id = 0
    /\ last.limit = 20 * 60 + 59
    /\ last.ret = << 20 >>

(* C23: on a store without any row the delay is the default of 30 minutes *)
C23_EmptyStore ==
    (IntervalCall /\ last.id = 0 /\ last.result = "") => last.ret = << 30 >>

(* C24: with 1 to 5 rows due the delay is 15 minutes, with more than 5 it  *)
(* is 10 minutes                                                           *)
C24_Tiers ==
    IntervalCall =>
        /\ last.id \in 1..5 => last.ret = << 15 >>
        /\ last.id > 5 => last.ret = << 10 >>

-----------------------------------------------------------------------------
(* The timeout configuration of the orchestrator. *)

(* stage ids passed to set_stage_timeout run from -1 to MaxStageId *)
MaxStageId == 6

StageIds == (-1)..MaxStageId

TimeoutSeconds == {5, 15, 45}

(* variant: every stage id is taken *)
ValidStage_Any(stage_id) == TRUE

(* set_stage_timeout: "if 1 <= stage_id <= 4" *)
ValidStage(stage_id) == 1 <= stage_id /\ stage_id <= 4

(* self.stage_timeouts[stage_id] = timeout_seconds: a dict assignment,     *)
(* which adds the key when it is new                                       *)
Assigned(timeouts, stage_id, timeout_seconds) ==
    [ key \in DOMAIN timeouts \cup {stage_id} |->
        IF key = stage_id THEN timeout_seconds ELSE timeouts[key] ]

SetStageTimeout(stage_id, timeout_seconds) ==
    /\ app' = IF ValidStage(stage_id)
              THEN [app EXCEPT !.stage_timeouts = Assigned(@, stage_id, timeout_seconds)]
              ELSE app
    /\ last' = Call("set_stage_timeout", stage_id, "", timeout_seconds, <<>>)
    /\ UNCHANGED <<now, cards, hist, steps>>

NextTimeouts ==
    \E stage_id \in StageIds, timeout_seconds \in TimeoutSeconds :
        SetStageTimeout(stage_id, timeout_seconds)

SpecTimeouts == Init /\ [][NextTimeouts]_vars

(* C25: set_stage_timeout with a stage id outside 1..4 leaves the whole    *)
(* configuration as it was; the configuration always has the keys 1..4;    *)
(* a call with a valid stage changes that stage's entry only               *)
C25_Config ==
    [][last'.op = "set_stage_timeout" =>
         /\ DOMAIN app'.stage_timeouts = 1..4
         /\ last'.id \notin 1..4 => app'.stage_timeouts = app.stage_timeouts
         /\ last'.id \in 1..4 =>
               /\ app'.stage_timeouts[last'.id] = last'.limit
               /\ \A stage_id \in (1..4) \ {last'.id} :
                     app'.stage_timeouts[stage_id] = app.stage_timeouts[stage_id]]_vars

(* a call for stage 5 made on a configuration changed before *)
C25_Witness ==
    /\ last.op = "set_stage_timeout"
    /\ last.id = 5
    /\ app.stage_timeouts = [ stage_id \in 1..4 |->
                                IF stage_id = 2 THEN 45 ELSE IF stage_id = 4 THEN 30 ELSE 20 ]

-----------------------------------------------------------------------------
(* Sessions with the hand-over of results taken apart.  The slots that end *)
(* a window (decline_review -> postpone_review, finish_review ->            *)
(* on_review_completed) run inside app.processEvents(); the wait loop that *)
(* called it tests its condition and applies the results only after        *)
(* processEvents() has delivered the other events that are pending, a      *)
(* timer's pass among them.                                                *)

(* PreReviewNotification.decline_review: the window is hidden, then        *)
(* review_declined is emitted and postpone_review stores the results       *)
DeclineReview ==
    /\ Waiting("notify")
    /\ app.notification = "visible"
    /\ app' = [app EXCEPT !.notification = "hidden",
                          !.results = TimeoutResults(app.pending),
                          !.pending = <<>>]
    /\ last' = Call("decline_review", 0, "", 0, <<>>)
    /\ UNCHANGED <<now, cards, hist, steps>>

(* ReviewerModule.finish_review: the window is hidden, then                *)
(* review_completed is emitted and on_review_completed stores the results  *)
FinishReview(results) ==
    /\ Waiting("review")
    /\ app.reviewer = "visible"
    /\ results \in ReviewerResults(app.batch)
    /\ app' = [app EXCEPT !.reviewer = "hidden", !.results = results]
    /\ last' = Call("finish_review", 0, "", 0, <<>>)
    /\ UNCHANGED <<now, cards, hist, steps>>

NextHandOver ==
    \/ CreateFlashcard
    \/ Tick
    \/ StartAutomaticReview
    \/ StartManualReview
    \/ \E started \in BOOLEAN : ProceedWithReview(started)
    \/ DeclineReview
    \/ \E results \in ReviewerResults(app.batch) : FinishReview(results)
    \/ WaitEnds(NoFailure(app.results))

SpecHandOver == Init /\ [][NextHandOver]_vars

(* C26: is_review_in_progress() is true at every point between the         *)
(* selection of a non-empty batch by start_review_session and the          *)
(* application of that session's outcomes, so that a pass of the timer in  *)
(* between is put off                                                      *)
C26_InProgress ==
    app.frames # <<>> => IsReviewInProgress

-----------------------------------------------------------------------------
(* Sessions under their timers.  The notification closes itself after 5    *)
(* seconds, every card of the reviewer has its auto-close timer, feedback  *)
(* and summary have theirs, and both wait loops compare the clock with a   *)
(* timeout: a session that is in flight cannot stay where it is for ever.  *)

SessionProgress ==
    \/ PostponeReview(NoFailure(TimeoutResults(app.pending)))
    \/ \E results \in ReviewerResults(app.batch) :
          OnReviewCompleted(results, NoFailure(results))
    \/ WaitEnds(NoFailure(app.results))

SpecAppLive == SpecApp /\ WF_vars(SessionProgress)

(* every session in flight returns *)
SessionsReturn == (app.frames # <<>>) ~> (app.frames = <<>>)

(* C27: every call of start_review_session returns in the end, whatever    *)
(* the learner does, and once it has returned neither the notification nor *)
(* the reviewer window is visible: is_review_in_progress() is false again  *)
C27_Returns ==
    /\ SessionsReturn
    /\ [](app.frames = <<>> => ~IsReviewInProgress)

-----------------------------------------------------------------------------
(* One ReviewerModule window, event by event.  Here app is the window's    *)
(* state: current_index counts from 0 as in the code, results[i] is the    *)
(* outcome stored for the i-th card of the batch ("" when there is none),  *)
(* content is what the window shows, timers holds the single-shot timers   *)
(* that are running, shown lists the positions of the cards presented so   *)
(* far, emitted the result maps sent through review_completed, and early   *)
(* remembers the first timeout or ESC of the session.                      *)

(* cards in a batch handed to the reviewer *)
MaxBatch == 2

Batches ==
    UNION { { [ i \in 1..n |-> [ id |-> i, stage_id |-> stages[i] ] ] :
              stages \in [ 1..n -> 1..4 ] } : n \in 1..MaxBatch }

FreshReviewer ==
    [ current_flashcards |-> <<>>,
      current_index      |-> 0,
      results            |-> <<>>,
      content            |-> "none",
      timers             |-> {},
      window             |-> "none",
      shown              |-> <<>>,
      emitted            |-> <<>>,
      early              |-> <<>> ]

InitReviewer ==
    /\ now = 0
    /\ cards = <<>>
    /\ last = NoCall
    /\ hist = <<>>
    /\ steps = 0
    /\ app = FreshReviewer

OnShow(r) == r.current_index < Len(r.current_flashcards)

(* show_summary and show_summary_with_timeout_message: the summary and a   *)
(* new 3-second summary_timer                                              *)
ShowSummary(r) ==
    [r EXCEPT !.content = "summary", !.timers = @ \cup {"summary"}]

(* show_current_flashcard: the card at current_index with its auto-close   *)
(* timer, or the summary when the batch is through                         *)
ShowCurrentFlashcard(r) ==
    IF ~OnShow(r) THEN ShowSummary(r)
    ELSE [r EXCEPT !.content = "card",
                   !.shown = Append(@, r.current_index + 1),
                   !.timers = @ \cup {"auto_close"}]

(* mark_remaining_as_timeout *)
MarkRemainingAsTimeout(r) ==
    [r EXCEPT !.results = [ i \in DOMAIN @ |->
                              IF i > r.current_index + 1 THEN "TIMEOUT" ELSE @[i] ]]

Recorded(r, result) ==
    [r EXCEPT !.results[r.current_index + 1] = result]

(* the first timeout or ESC of a session *)
Noted(r, result) ==
    IF r.early # <<>> THEN r
    ELSE [r EXCEPT !.early = << [ at |-> r.current_index + 1, result |-> result ] >>]

(* handle_timeout and handle_escape_key on a card: the outcome, the rows   *)
(* after it, the summary; feedback_timer is left running                   *)
EarlyExit(r, result) ==
    ShowSummary(MarkRemainingAsTimeout(
        [Noted(Recorded(r, result), result) EXCEPT !.timers = @ \ {"auto_close"}]))

(* record_result *)
RecordResult(r, result) ==
    IF ~OnShow(r) THEN r
    ELSE LET stored == [Recorded(r, result) EXCEPT !.timers = @ \ {"auto_close"}]
         IN  IF r.current_flashcards[r.current_index + 1].stage_id > 1
                /\ result \in {"True", "False"}
             THEN [stored EXCEPT !.content = "feedback", !.timers = @ \cup {"feedback"}]
             ELSE ShowCurrentFlashcard([stored EXCEPT !.current_index = @ + 1])

ReviewerStep(op, r) ==
    /\ app' = r
    /\ last' = Call(op, 0, "", 0, <<>>)
    /\ UNCHANGED <<now, cards, hist, steps>>

(* start_review on a fresh instance *)
StartReview(flashcards) ==
    /\ app.window = "none"
    /\ ReviewerStep("start_review",
          ShowCurrentFlashcard(
             [app EXCEPT !.current_flashcards = flashcards,
                         !.current_index = 0,
                         !.results = [ i \in 1..Len(flashcards) |-> "" ],
                         !.window = "visible"]))

(* a button or the input field of the card on show -> record_result *)
Answer(result) ==
    /\ app.window = "visible"
    /\ app.content = "card"
    /\ OnShow(app)
    /\ result \in Answers(app.current_flashcards[app.current_index + 1].stage_id)
    /\ ReviewerStep("record_result", RecordResult(app, result))

(* auto_close_timer fires -> handle_timeout *)
HandleTimeout ==
    /\ "auto_close" \in app.timers
    /\ ReviewerStep("handle_timeout",
          IF OnShow(app) THEN EarlyExit(app, "TIMEOUT")
          ELSE [app EXCEPT !.timers = @ \ {"auto_close"}])

(* ESC while the window is visible -> handle_escape_key *)
HandleEscapeKey ==
    /\ app.window = "visible"
    /\ ReviewerStep("handle_escape_key",
          IF OnShow(app) THEN EarlyExit(app, "ESCAPE") ELSE app)

(* feedback_timer fires -> hide_feedback *)
HideFeedback ==
    /\ "feedback" \in app.timers
    /\ ReviewerStep("hide_feedback",
          ShowCurrentFlashcard(
             [app EXCEPT !.timers = @ \ {"feedback"}, !.current_index = @ + 1]))

Emitted(r) == [r EXCEPT !.emitted = Append(@, r.results)]

(* summary_timer fires -> finish_review *)
FinishReviewWindow ==
    /\ "summary" \in app.timers
    /\ ReviewerStep("finish_review",
          [Emitted(app) EXCEPT !.timers = {}, !.content = "none",
                               !.current_index = 0, !.window = "hidden"])

(* the window is closed -> closeEvent *)
CloseEvent ==
    /\ app.window = "visible"
    /\ LET filled == IF OnShow(app)
                     THEN MarkRemainingAsTimeout(
                              IF app.results[app.current_index + 1] = ""
                              THEN Recorded(app, "TIMEOUT") ELSE app)
                     ELSE app
           sent == IF \E i \in DOMAIN filled.results : filled.results[i] # ""
                   THEN Emitted(filled) ELSE filled
       IN  ReviewerStep("closeEvent",
              [sent EXCEPT !.timers = {}, !.content = "none",
                           !.current_index = 0, !.window = "hidden"])

NextReviewer ==
    \/ \E flashcards \in Batches : StartReview(flashcards)
    \/ \E result \in {"True", "False"} : Answer(result)
    \/ HandleTimeout
    \/ HandleEscapeKey
    \/ HideFeedback
    \/ FinishReviewWindow
    \/ CloseEvent

SpecReviewer == InitReviewer /\ [][NextReviewer]_vars

(* C28: the reviewer presents the batch in its order, every card at most   *)
(* once; after the first timeout or ESC of a session no further card is    *)
(* presented; the emitted result map has an outcome for every card of the  *)
(* batch, the card of that first timeout or ESC is recorded TIMEOUT or     *)
(* ESCAPE accordingly and every later card TIMEOUT                         *)
C28_EarlyExit ==
    [][/\ \A i \in 1..Len(app'.shown) : app'.shown[i] = i
       /\ app.early # <<>> => app'.shown = app.shown
       /\ Len(app'.emitted) > Len(app.emitted) =>
             LET results == app'.emitted[Len(app'.emitted)]
             IN  /\ \A i \in DOMAIN results : results[i] # ""
                 /\ app'.early # <<>> =>
                       /\ results[app'.early[1].at] = app'.early[1].result
                       /\ \A i \in DOMAIN results :
                             i > app'.early[1].at => results[i] = "TIMEOUT"]_vars

-----------------------------------------------------------------------------
(* The samplers on stores that reach beyond the window of neighbouring     *)
(* ids.  The store is drawn at the start: rows of different texts, the     *)
(* last row possibly a repetition of an earlier one (create_flashcard      *)
(* takes any text); the first row carries texts of the built-in lists.     *)
(* A call's ret holds the entries the sampler returns in the order they    *)
(* were collected; the sampler returns them in any order.                  *)

(* rows in the store of the sampler calls *)
MaxRows == 12

RowWords ==
    << "apple", "pear", "plum", "fig", "lime", "kiwi", "date",
       "melon", "mango", "peach", "grape", "cherry", "lemon", "olive" >>

RowMeanings ==
    << "a loyal pet animal", "m2", "m3", "m4", "m5", "m6", "m7",
       "m8", "m9", "m10", "m11", "m12", "m13", "m14" >>

RowCounts == 1..Min(MaxRows, Len(RowWords))

SampleCounts == {3, 11, 12}

Row(i) == [ word |-> RowWords[i], meaning |-> RowMeanings[i] ]

Stores ==
    UNION { { [ i \in 1..n |-> Row(IF i = n THEN same ELSE i) ] : same \in 1..n } :
            n \in RowCounts }

InitStore ==
    /\ now = 0
    /\ cards \in Stores
    /\ last = NoCall
    /\ hist = <<>>
    /\ steps = 0
    /\ app = NoSession

(* the selections of k entries of a list, in the list's order: what        *)
(* random.shuffle followed by [:k] keeps                                   *)
RECURSIVE Selections(_, _)
Selections(list, k) ==
    IF k = 0 THEN { <<>> }
    ELSE IF Len(list) < k THEN {}
    ELSE { <<Head(list)>> \o rest : rest \in Selections(Tail(list), k - 1) }
            \cup Selections(Tail(list), k)

Kept(texts, defaults, exclude_id, count) ==
    UNION { Selections(list, Min(count, Len(list))) :
            list \in Collected(texts, defaults, exclude_id, count) }

SampleWords(exclude_id, count) ==
    /\ \E ret \in Kept(WordColumn, default_words, exclude_id, count) :
          last' = Call("get_contextual_words_for_stage3", exclude_id, "", count, ret)
    /\ UNCHANGED <<now, cards, hist, steps, app>>

SampleMeanings(exclude_id, count) ==
    /\ \E ret \in Kept(MeaningColumn, default_meanings, exclude_id, count) :
          last' = Call("get_contextual_meanings_for_stage2", exclude_id, "", count, ret)
    /\ UNCHANGED <<now, cards, hist, steps, app>>

(* one call on every store: the samplers only read *)
NextSampler ==
    \/ \E exclude_id \in DOMAIN cards, count \in SampleCounts :
          last = NoCall /\ SampleWords(exclude_id, count)
    \/ \E exclude_id \in DOMAIN cards, count \in SampleCounts :
          last = NoCall /\ SampleMeanings(exclude_id, count)

SpecSampler == InitStore /\ [][NextSampler]_vars

SamplerCall ==
    last.op \in {"get_contextual_words_for_stage3", "get_contextual_meanings_for_stage2"}

SampledColumn ==
    IF last.op = "get_contextual_words_for_stage3" THEN WordColumn ELSE MeaningColumn

WindowTexts == { SampledColumn[id] : id \in NeighbourIds(SampledColumn, last.id) }

OtherIds == DOMAIN cards \ {last.id}

RestTexts == { SampledColumn[id] : id \in OtherIds } \ WindowTexts

FromRest == { i \in DOMAIN last.ret : last.ret[i] \in RestTexts }

BuiltIn == { i \in DOMAIN last.ret : last.ret[i] \notin WindowTexts \cup RestTexts }

WindowSize == Cardinality(NeighbourIds(SampledColumn, last.id))

(* the rows a sampler can draw on: the window's, and those of the rest of  *)
(* the store whose text no window row carries                              *)
Provided ==
    WindowSize
      + Cardinality({ id \in OtherIds : SampledColumn[id] \notin WindowTexts })

SampledAsSaid(provided) ==
    SamplerCall =>
       /\ Len(last.ret) = last.limit
       /\ WindowSize >= last.limit => FromRest = {} /\ BuiltIn = {}
       /\ WindowSize < last.limit =>
             Cardinality(FromRest) <= last.limit - WindowSize
       /\ BuiltIn # {} => provided < last.limit

(* C29 as stated: a sampler returns exactly n entries; with n or more      *)
(* other rows in the window all of them are window rows' texts; otherwise  *)
(* the rest of the store adds no more than the shortfall, and built-in     *)
(* entries appear only when the store without the target has fewer than n  *)
(* rows                                                                    *)
C29_Original == SampledAsSaid(Cardinality(OtherIds))

(* C29: as above, but built-in entries appear only when the window rows    *)
(* together with the rows of the rest of the store whose text differs from *)
(* every window row's text are fewer than n                                *)
C29_Sampled == SampledAsSaid(Provided)

C29_Witness ==
    /\ SamplerCall
    /\ WindowSize < last.limit
    /\ FromRest # {}
    /\ BuiltIn # {}

-----------------------------------------------------------------------------
(* The option lists of the multiple-choice cards.  Here app is the         *)
(* reviewer's card on show with the two contextual pools it was started    *)
(* with; a pool is what prepare_contextual_words or                        *)
(* prepare_contextual_meanings hands over, list(set(...)) of the samplers' *)
(* entries for the batch, or [] when the preparation failed.               *)

(* entries in a contextual pool *)
MaxPool == 4

(* "example", "test" and the two first meanings also stand in the          *)
(* reviewer's built-in lists                                               *)
PoolWords == {"apple", "example", "test", "pear", "plum"}
PoolMeanings ==
    {"a sour fruit", "a common example word", "a test meaning for practice",
     "a sweet fruit", "a stone fruit"}
CardWords == {"apple", "example"}
CardMeanings == {"a sour fruit", "a common example word"}

reviewer_default_words == << "example", "test", "word", "sample", "demo" >>

reviewer_default_meanings ==
    << "a common example word",
       "a test meaning for practice",
       "a sample definition",
       "a demonstration phrase",
       "a placeholder meaning" >>

(* list(set(...)): the different entries in some order *)
Pools(S) ==
    UNION { Arrangements(S, k) : k \in 0..Min(MaxPool, Cardinality(S)) }

InitOptions ==
    /\ now = 0
    /\ cards = <<>>
    /\ last = NoCall
    /\ hist = <<>>
    /\ steps = 0
    /\ \E stage_id \in {2, 3}, word \in CardWords, meaning \in CardMeanings,
          words \in Pools(PoolWords), meanings \in Pools(PoolMeanings) :
          /\ stage_id = 2 => words = <<>>
          /\ stage_id = 3 => meanings = <<>>
          /\ app = [ flashcard |-> [ id |-> 1, stage_id |-> stage_id,
                                     word |-> word, meaning |-> meaning ],
                     contextual_words |-> words,
                     contextual_meanings |-> meanings ]

(* variant: the card's own answer stays in the pool *)
Available_All(pool, answer) == pool

(* [w for w in pool if w != answer] *)
Available(pool, answer) == SelectSeq(pool, LAMBDA entry : entry # answer)

(* for default in defaults: if len(options) < 4 and default not in options *)
RECURSIVE AddDefaults(_, _)
AddDefaults(options, defaults) ==
    IF defaults = <<>> THEN options
    ELSE AddDefaults(
             IF Len(options) < 4 /\ Head(defaults) \notin Range(options)
             THEN Append(options, Head(defaults)) ELSE options,
             Tail(defaults))

(* the option lists a builder can return *)
MultipleChoice(pool, answer, defaults) ==
    UNION { Shuffled(AddDefaults(<<answer>> \o picked, defaults), 4) :
            picked \in Shuffled(Available(pool, answer), 3) }

GetMultipleChoiceMeaningsForStage2 ==
    /\ last = NoCall
    /\ app.flashcard.stage_id = 2
    /\ \E options \in MultipleChoice(app.contextual_meanings, app.flashcard.meaning,
                                     reviewer_default_meanings) :
          last' = Call("get_multiple_choice_meanings_for_stage2", app.flashcard.id,
                       app.flashcard.meaning, 0, options)
    /\ UNCHANGED <<now, cards, hist, steps, app>>

GetMultipleChoiceOptions ==
    /\ last = NoCall
    /\ app.flashcard.stage_id = 3
    /\ \E options \in MultipleChoice(app.contextual_words, app.flashcard.word,
                                     reviewer_default_words) :
          last' = Call("get_multiple_choice_options", app.flashcard.id,
                       app.flashcard.word, 0, options)
    /\ UNCHANGED <<now, cards, hist, steps, app>>

NextOptions ==
    \/ GetMultipleChoiceMeaningsForStage2
    \/ GetMultipleChoiceOptions

SpecOptions == InitOptions /\ [][NextOptions]_vars

OptionsCall ==
    last.op \in {"get_multiple_choice_meanings_for_stage2", "get_multiple_choice_options"}

(* C30: the option list of a stage-2 or stage-3 card has exactly 4         *)
(* entries, no two of them equal, and exactly one of them is the card's    *)
(* correct answer, whatever the pool: empty, or with the answer in it      *)
C30_Options ==
    OptionsCall =>
       /\ Len(last.ret) = 4
       /\ \A i, j \in DOMAIN last.ret : last.ret[i] = last.ret[j] => i = j
       /\ Cardinality({ i \in DOMAIN last.ret : last.ret[i] = last.result }) = 1

OwnPool ==
    IF app.flashcard.stage_id = 2 THEN app.contextual_meanings ELSE app.contextual_words

C30_Witness ==
    /\ OptionsCall
    /\ last.result \in Range(OwnPool)
    /\ Len(OwnPool) = 3
    /\ \E i \in DOMAIN last.ret : last.ret[i] \notin Range(OwnPool)

-----------------------------------------------------------------------------
(* The store with the columns that scheduling does not read.  A row is the *)
(* row of the sections above together with its id and the texts it was     *)
(* created with; the UPDATE statements are those of the sections above.    *)

(* the texts of the i-th row: what the learner enters in the               *)
(* CreateNewFlashcard modal, or the entry of the daily loader's word list  *)
Entry(i) ==
    [ word |-> RowWords[i], meaning |-> RowMeanings[i],
      example |-> "", tag |-> "food" ]

FlashcardData == { Entry(Len(cards) + 1) }

WordData == { Entry(Len(cards) + 1) }

(* the columns of an INSERT that the row of the sections above leaves out *)
Columns(id, flashcard_data) ==
    [ id      |-> id,
      word    |-> flashcard_data.word,
      meaning |-> flashcard_data.meaning,
      example |-> flashcard_data.example,
      tag     |-> flashcard_data.tag ]

(* create_flashcard(flashcard_data) *)
CreateFlashcardFrom(flashcard_data) ==
    /\ steps < MaxSteps
    /\ Len(cards) < Len(RowWords)
    /\ steps' = steps + 1
    /\ cards' = Append(cards, NewRow(now) @@ Columns(Len(cards) + 1, flashcard_data))
    /\ hist' = Append(hist, NewHist)
    /\ last' = Call("create_flashcard", Len(cards) + 1, "", 0, <<>>)
    /\ UNCHANGED <<now, app>>

(* insert_word_to_database(word_data) *)
InsertWordFrom(word_data) ==
    /\ steps < MaxSteps
    /\ Len(cards) < Len(RowWords)
    /\ steps' = steps + 1
    /\ cards' = Append(cards, InsertedRow(now) @@ Columns(Len(cards) + 1, word_data))
    /\ hist' = Append(hist, NewHist)
    /\ last' = Call("insert_word_to_database", Len(cards) + 1, "", 0, <<>>)
    /\ UNCHANGED <<now, app>>

NextColumns ==
    \/ \E flashcard_data \in FlashcardData : CreateFlashcardFrom(flashcard_data)
    \/ \E word_data \in WordData : InsertWordFrom(word_data)
    \/ \E id \in 1..(Len(cards) + 1), result \in Results :
          UpdateFlashcardAfterReview(id, result)
    \/ \E limit \in Limits : GetDueFlashcards(limit)
    \/ Tick

SpecColumns == Init /\ [][NextColumns]_vars

Identity(flashcard) ==
    << flashcard.id, flashcard.word, flashcard.meaning, flashcard.example,
       flashcard.tag, flashcard.created_at >>

(* C31: no operation deletes a row or changes its id, word, meaning,       *)
(* example, tag or created_at; update_flashcard_after_review changes the   *)
(* row of its id only, and nothing for an id that is not in the table;     *)
(* get_due_flashcards changes no column but priority_score                 *)
C31_Frame ==
    [][/\ Len(cards') >= Len(cards)
       /\ \A id \in Ids : /\ cards'[id].id = id
                          /\ Identity(cards'[id]) = Identity(cards[id])
       /\ last'.op = "update_flashcard_after_review" =>
             /\ Len(cards') = Len(cards)
             /\ \A id \in Ids : id # last'.id => cards'[id] = cards[id]
       /\ last'.op = "get_due_flashcards" =>
             /\ Len(cards') = Len(cards)
             /\ \A id \in Ids :
                   [cards'[id] EXCEPT !.priority_score = cards[id].priority_score]
                      = cards[id]]_vars

C31_Witness ==
    /\ last.op = "update_flashcard_after_review"
    /\ last.id \in Ids
    /\ Len(cards) >= 2
    /\ \E id \in Ids : id # last.id /\ cards[id].word # cards[last.id].word
    /\ cards[last.id].review_count > 0

-----------------------------------------------------------------------------
(* The daily loader (AutoInsertNewWord) over one day.  now is the time of  *)
(* day, 0 at midnight; a row is its word, its created_at and whether the   *)
(* loader inserted it; app holds the settings the loader is called with.   *)

(* the largest daily count of the settings *)
MaxTarget == 2

(* rows the learner creates by hand during the day *)
MaxCreated == 1

(* insert_new_words.json: "Apple" and "apple" differ in case only, "pear"  *)
(* stands twice                                                            *)
JsonWords == << "apple", "Apple", "pear", "pear", "plum" >>

TargetTimes == { Hours(7) }

Lower(word) == IF word = "Apple" THEN "apple" ELSE word

InitAutoInsert ==
    /\ now = 0
    /\ cards = <<>>
    /\ last = NoCall
    /\ hist = <<>>
    /\ steps = 0
    /\ \E target_count \in 1..MaxTarget, target_datetime \in TargetTimes :
          app = [ target_count |-> target_count, target_datetime |-> target_datetime ]

(* check_word_exists: a row WHERE LOWER(word) = LOWER(?) *)
CheckWordExists(table, word) ==
    \E id \in DOMAIN table : Lower(table[id].word) = Lower(word)

(* get_today_inserted_count: rows created within one hour of the target *)
GetTodayInsertedCount(table, target_time) ==
    Cardinality({ id \in DOMAIN table :
                    /\ table[id].created_at >= target_time - Hours(1)
                    /\ table[id].created_at <= target_time + Hours(1) })

(* the filter loop: entries of the list whose word the table does not      *)
(* hold, up to remaining_count of them; the table is the one the call      *)
(* found                                                                   *)
RECURSIVE NewWords(_, _, _, _)
NewWords(table, words_data, new_words, remaining_count) ==
    IF words_data = <<>> \/ Len(new_words) >= remaining_count THEN new_words
    ELSE NewWords(table, Tail(words_data),
                  IF CheckWordExists(table, Head(words_data)) THEN new_words
                  ELSE Append(new_words, Head(words_data)),
                  remaining_count)

(* the insert loop *)
InsertAll(table, new_words, t) ==
    table \o [ i \in 1..Len(new_words) |->
                 [ word |-> new_words[i], created_at |-> t, inserted |-> TRUE ] ]

(* auto_insert_daily_words(target_count, hour, minute) *)
AutoInsertDailyWords ==
    LET today_count == GetTodayInsertedCount(cards, app.target_datetime)
        new_words == NewWords(cards, JsonWords, <<>>, app.target_count - today_count)
    IN  /\ IF now < app.target_datetime
           THEN /\ cards' = cards
                /\ last' = Call("auto_insert_daily_words", 0, "False", app.target_count, <<>>)
           ELSE IF today_count >= app.target_count
           THEN /\ cards' = cards
                /\ last' = Call("auto_insert_daily_words", 0, "True", app.target_count, <<>>)
           ELSE /\ cards' = InsertAll(cards, new_words, now)
                /\ last' = Call("auto_insert_daily_words", 0, "True", app.target_count,
                                new_words)
        /\ UNCHANGED <<now, hist, steps, app>>

(* create_flashcard, as far as the loader reads the row *)
CreateByHand ==
    /\ Cardinality({ id \in DOMAIN cards : ~cards[id].inserted }) < MaxCreated
    /\ \E word \in {"plum", "fig"} :
          cards' = Append(cards, [ word |-> word, created_at |-> now, inserted |-> FALSE ])
    /\ last' = Call("create_flashcard", Len(cards) + 1, "", 0, <<>>)
    /\ UNCHANGED <<now, hist, steps, app>>

(* an hour passes *)
HourPasses ==
    /\ now + Hours(1) < Hours(24)
    /\ now' = now + Hours(1)
    /\ last' = NoCall
    /\ UNCHANGED <<cards, hist, steps, app>>

NextAutoInsert ==
    \/ AutoInsertDailyWords
    \/ CreateByHand
    \/ HourPasses

SpecAutoInsert == InitAutoInsert /\ [][NextAutoInsert]_vars

InsertedToday == { id \in DOMAIN cards : cards[id].inserted }

(* C32: the calls of one day insert no more than target_count words        *)
(* together, and a call before the target time inserts nothing and         *)
(* reports success = False                                                 *)
C32_DailyCap ==
    /\ Cardinality(InsertedToday) <= app.target_count
    /\ \A id \in InsertedToday : cards[id].created_at >= app.target_datetime
    /\ last.op = "auto_insert_daily_words" /\ now < app.target_datetime
          => last.result = "False" /\ last.ret = <<>>

(* C33: no word the loader inserted equals, case ignored, the word of      *)
(* another row, also when the list holds a word more than once             *)
C33_NoDuplicate ==
    \A id \in InsertedToday : \A other \in DOMAIN cards :
        other # id => Lower(cards[other].word) # Lower(cards[id].word)

-----------------------------------------------------------------------------
(* force_review_session.  Its first statement after the import is          *)
(*   with DatabaseManager(path).database_manager.db_path as db_path:       *)
(* a DatabaseManager has no attribute database_manager (and a path string  *)
(* is no context manager), so the statement raises before any row is read; *)
(* the handler at the end of the function returns (False, 30).             *)

ForcedFallback == 30

ForceReviewSession(limit) ==
    /\ last' = Call("force_review_session", 0, "", limit, <<>>)
    /\ app' = [app EXCEPT !.returned = << [ ok |-> FALSE, delay |-> ForcedFallback ] >>]
    /\ UNCHANGED <<now, cards, hist, steps>>

NextForce ==
    \/ CreateFlashcard
    \/ Tick
    \/ \E id \in Ids, result \in Results : UpdateFlashcardAfterReview(id, result)
    \/ \E limit \in Limits : ForceReviewSession(limit)

SpecForce == Init /\ [][NextForce]_vars

(* C34: on a table with rows force_review_session presents the             *)
(* min(limit, rows) rows of the highest stored priority_score, due or not, *)
(* and returns (False, 30) only when the review gave no results; last.ret  *)
(* is the batch it presented                                               *)
C34_Forced ==
    last.op = "force_review_session" /\ cards # <<>> =>
       /\ Len(last.ret) = Min(last.limit, Len(cards))
       /\ \A i \in DOMAIN last.ret : \A id \in Ids \ Range(last.ret) :
             cards[last.ret[i]].priority_score >= cards[id].priority_score

-----------------------------------------------------------------------------
(* C35: an outcome "True" or "False" that the reviewer has recorded for a  *)
(* card stays as it is for the rest of the session, and the result map the *)
(* reviewer emits carries it: no ESC, timeout or closing of the window     *)
(* replaces it                                                             *)
C35_Graded ==
    [][/\ \A i \in DOMAIN app.results :
             app.results[i] \in {"True", "False"} => app'.results[i] = app.results[i]
       /\ Len(app'.emitted) > Len(app.emitted) =>
             \A i \in DOMAIN app.results :
                 app.results[i] \in {"True", "False"} =>
                     app'.emitted[Len(app'.emitted)][i] = app.results[i]]_vars

-----------------------------------------------------------------------------
(* the rows a step applied an outcome to *)
AppliedTo == { id \in Ids : hist'[id].applied > hist[id].applied }

BatchIds(batch) == { batch[i].id : i \in 1..Len(batch) }

(* C36: a step that applies outcomes applies the result map its own        *)
(* session has just received, postpone_review's for the pending batch or   *)
(* the reviewer's for the batch on show, once for every row; a session     *)
(* whose wait ends without a result map of its own applies nothing, also   *)
(* when current_session_results still holds an earlier session's map       *)
C36_OwnResults ==
    [][/\ \A id \in Ids : hist'[id].applied <= hist[id].applied + 1
       /\ AppliedTo # {} /\ last'.op # "update_flashcard_after_review" =>
             \/ last'.op = "postpone_review" /\ AppliedTo \subseteq BatchIds(app.pending)
             \/ last'.op = "on_review_completed" /\ AppliedTo \subseteq BatchIds(app.batch)]_vars

-----------------------------------------------------------------------------
(* C37: for every row, stage_id <= 1 + correct_count and                   *)
(* correct_count + wrong_count <= review_count; a step raises a stage only *)
(* together with correct_count                                             *)
C37_StageEarned ==
    [][/\ \A id \in 1..Len(cards') :
             /\ cards'[id].stage_id <= 1 + cards'[id].correct_count
             /\ cards'[id].correct_count + cards'[id].wrong_count
                   <= cards'[id].review_count
       /\ \A id \in Ids :
             cards'[id].stage_id > cards[id].stage_id =>
                 cards'[id].correct_count = cards[id].correct_count + 1]_vars

(* a row at stage 3 by two correct answers, with a wrong answer and a      *)
(* non-answer on top                                                       *)
C37_Witness ==
    \E id \in Ids :
        /\ cards[id].stage_id = 3
        /\ cards[id].correct_count = 2
        /\ cards[id].wrong_count = 1
        /\ cards[id].review_count = 4

-----------------------------------------------------------------------------
(* The ranking of get_due_flashcards on stores that hold a row with a      *)
(* history of graded answers.  The store starts with one row, created at   *)
(* clock reading 0 and answered each time at the moment it fell due; new   *)
(* rows are created beside it while time passes.                           *)

(* graded answers in the history of the first row *)
MaxAnswers == 4

(* rows created after the first *)
MaxRivals == 1

Gradings == UNION { [ 1..n -> {"True", "False"} ] : n \in 0..MaxAnswers }

(* update_flashcard_after_review, called for each answer of the history    *)
(* at the clock reading at which the row is due                            *)
RECURSIVE Replayed(_, _)
Replayed(flashcard, answers) ==
    IF answers = <<>> THEN flashcard
    ELSE Replayed(UpdatePriorityScore(
                      ReviewedRow(flashcard, Head(answers), flashcard.next_review_time),
                      flashcard.next_review_time),
                  Tail(answers))

InitRanking ==
    \E answers \in Gradings :
        LET flashcard == Replayed(NewRow(0), answers)
        IN  /\ cards = << flashcard >>
            /\ now = IF answers = <<>> THEN 0 ELSE flashcard.last_reviewed_at[1]
            /\ hist = << [NewHist EXCEPT !.applied = Len(answers)] >>
            /\ last = NoCall
            /\ steps = 0
            /\ app = NoSession

NextRanking ==
    \/ Len(cards) <= MaxRivals /\ CreateFlashcard
    \/ \E limit \in Limits : GetDueFlashcards(limit)
    \/ Tick

SpecRanking == InitRanking /\ [][NextRanking]_vars

(* C38: of two due rows, one at stage 1 and one at stage 4, the query      *)
(* never returns the stage-4 row without the stage-1 row before it         *)
C38_StageOneFirst ==
    last.op = "get_due_flashcards" =>
        \A a, b \in Ids :
            ( /\ cards[a].stage_id = 1
              /\ cards[b].stage_id = 4
              /\ cards[a].next_review_time <= now
              /\ cards[b].next_review_time <= now
              /\ b \in Range(last.ret) )
            => RankedAtOrBefore(last.ret, a, b)

(* a stage-4 row last answered wrong and overdue by more than ten hours    *)
(* scores 120, as much as a new stage-1 row that has just fallen due, and  *)
(* is returned after it                                                    *)
C38_Witness ==
    /\ last.op = "get_due_flashcards"
    /\ \E a, b \in Ids :
          /\ cards[a].stage_id = 1
          /\ cards[b].stage_id = 4
          /\ cards[b].correct = "False"
          /\ cards[b].next_review_time + Hours(10) < now
          /\ cards[a].priority_score = Points(120)
          /\ cards[b].priority_score = Points(120)
          /\ last.ret = << a, b >>

-----------------------------------------------------------------------------
(* The triggers of DripApp: review_timer, which fires again and again once *)
(* it is started, and the single-shot triggers of QTimer.singleShot.       *)
(* started tells that check_startup_reviews has run, timer is the delay    *)
(* review_timer runs with (0 while it is not started), shots the number of *)
(* single-shot triggers that have not fired yet.  A frame of a session     *)
(* also names the handler that called start_review_session.                *)

NotStarted == [ started |-> FALSE, shots |-> 0 ] @@ NoSession

InitSchedule ==
    /\ now = 0
    /\ cards = <<>>
    /\ last = NoCall
    /\ hist = <<>>
    /\ steps = 0
    /\ app = NotStarted

(* a future due check is pending *)
CheckPending(a) == a.timer > 0 \/ a.shots > 0

(* the delay computation of schedule_next_review fails under these faults *)
ScheduleFails(fault) == fault \in {"schedule_next_review", "database"}

(* start_review_session ends with an exception under these faults *)
SessionRaises(fault) == fault \in {"calculate_next_test_interval", "database"}

(* variant: start_automatic_review re-arms the timer only after a session  *)
(* that gave results                                                       *)
AfterSession_OnSuccess(by, a, table, t, ok, fault) ==
    IF ok /\ ~SessionRaises(fault)
    THEN [a EXCEPT !.timer = ScheduleNextReview(table, t, ScheduleFails(fault))]
    ELSE a

(* what the caller does once start_review_session has returned or raised:  *)
(* start_automatic_review calls schedule_next_review in every case,        *)
(* start_manual_review only after a session that gave results              *)
AfterSession(by, a, table, t, ok, fault) ==
    IF by = "start_automatic_review" \/ (ok /\ ~SessionRaises(fault))
    THEN [a EXCEPT !.timer = ScheduleNextReview(table, t, ScheduleFails(fault))]
    ELSE a

(* check_startup_reviews: a single-shot trigger when a row is due, the     *)
(* timer otherwise and when the due query fails                            *)
CheckStartupReviews(fault) ==
    /\ ~app.started
    /\ fault \in {"", "get_due_flashcards", "schedule_next_review", "database"}
    /\ steps < MaxSteps
    /\ steps' = steps + 1
    /\ UNCHANGED <<now, hist>>
    /\ last' = Call("check_startup_reviews", 0, fault, StartupLimit, <<>>)
    /\ IF fault \in {"get_due_flashcards", "database"}
       THEN /\ \E scored \in BOOLEAN :
                 cards' = IF scored
                          THEN UpdateAllPriorityScores(cards, Len(cards), now, now)
                          ELSE cards
            /\ app' = [app EXCEPT
                   !.started = TRUE,
                   !.timer = ScheduleNextReview(cards', now, ScheduleFails(fault))]
       ELSE /\ cards' = UpdateAllPriorityScores(cards, Len(cards), now, now)
            /\ IF \E id \in Ids : cards'[id].next_review_time <= now
               THEN app' = [app EXCEPT !.started = TRUE, !.shots = 1]
               ELSE app' = [app EXCEPT
                        !.started = TRUE,
                        !.timer = ScheduleNextReview(cards', now, ScheduleFails(fault))]

(* start_review_session entered by the handler by, from the application    *)
(* state a: it returns at once when nothing is due or the due query fails, *)
(* and shows the notification and waits otherwise                          *)
EnterSession(by, a, fault) ==
    /\ UNCHANGED <<now, hist>>
    /\ steps < MaxSteps
    /\ steps' = steps + 1
    /\ IF fault \in {"get_due_flashcards", "database"}
       THEN /\ \E scored \in BOOLEAN :
                 cards' = IF scored
                          THEN UpdateAllPriorityScores(cards, Len(cards), now, now)
                          ELSE cards
            /\ last' = Call(by, 0, fault, SessionLimit, <<>>)
            /\ app' = AfterSession(by,
                          [a EXCEPT !.returned =
                              IF SessionRaises(fault) THEN <<>>
                              ELSE Returned(FALSE, cards', now)],
                          cards', now, FALSE, fault)
       ELSE /\ cards' = UpdateAllPriorityScores(cards, Len(cards), now, now)
            /\ LET due == { id \in Ids : cards'[id].next_review_time <= now }
               IN  \E s \in SortedSelections(cards', due) :
                     LET due_flashcards == SubSeq(s, 1, Min(SessionLimit, Len(s)))
                     IN  IF SessionHasWork(due_flashcards)
                         THEN /\ fault = ""
                              /\ last' = Call(by, 0, "", SessionLimit, due_flashcards)
                              /\ app' = [a EXCEPT
                                     !.pending = Batch(cards', due_flashcards),
                                     !.notification = "visible",
                                     !.frames = Append(@, [pc |-> "notify", by |-> by])]
                         ELSE /\ last' = Call(by, 0, fault, SessionLimit, <<>>)
                              /\ app' = AfterSession(by,
                                            [a EXCEPT !.returned =
                                                IF SessionRaises(fault) THEN <<>>
                                                ELSE Returned(FALSE, cards', now)],
                                            cards', now, FALSE, fault)

(* start_automatic_review, from the application state a in which its       *)
(* trigger has fired: while a window of a session is visible it asks for   *)
(* another call 30 seconds later and returns                               *)
AutomaticReview(a, fault) ==
    IF IsReviewInProgress
    THEN /\ fault = ""
         /\ steps < MaxSteps
         /\ steps' = steps + 1
         /\ last' = Call("start_automatic_review", 0, "deferred", 0, <<>>)
         /\ app' = [a EXCEPT !.shots = @ + 1]
         /\ UNCHANGED <<now, cards, hist>>
    ELSE EnterSession("start_automatic_review", a, fault)

(* review_timer fires; it stays started *)
TimerFires(fault) ==
    /\ app.timer > 0
    /\ AutomaticReview(app, fault)

(* a single-shot trigger fires *)
ShotFires(fault) ==
    /\ app.shots > 0
    /\ AutomaticReview([app EXCEPT !.shots = @ - 1], fault)

(* the hotkey or the tray menu: start_manual_review *)
ManualReview(fault) ==
    /\ app.started
    /\ EnterSession("start_manual_review", app, fault)

(* accept_review -> proceed_with_review -> execute_review_session up to    *)
(* its wait                                                                *)
AcceptReview(started) ==
    /\ Waiting("notify")
    /\ app.notification = "visible"
    /\ app' = [app EXCEPT
           !.notification = "hidden",
           !.reviewer = IF started THEN "visible" ELSE "hidden",
           !.batch = IF started THEN app.pending ELSE <<>>,
           !.results = <<>>,
           !.frames = [@ EXCEPT ![Len(@)].pc = "review"]]
    /\ last' = Call("proceed_with_review", 0, "", 0, <<>>)
    /\ UNCHANGED <<now, cards, hist, steps>>

(* the end of show_pre_review_notification from the orchestrator state a,  *)
(* the return of start_review_session and what its caller does next        *)
ReturnToCaller(op, a, fault) ==
    LET ok == a.results # <<>>
        table == IF ok
                 THEN UpdateFlashcardResults(cards, a.results, now, NoFailure(a.results))
                 ELSE cards
    IN  /\ fault \in {"", "calculate_next_test_interval", "schedule_next_review"}
        /\ cards' = table
        /\ hist' = IF ok
                   THEN HistAfterResults(hist, cards, a.results, now, NoFailure(a.results))
                   ELSE hist
        /\ app' = AfterSession(Top.by,
                      [a EXCEPT !.frames = Pop(@),
                                !.returned = IF SessionRaises(fault) THEN <<>>
                                             ELSE Returned(ok, table, now)],
                      table, now, ok, fault)
        /\ last' = Call(op, 0, fault, 0, <<>>)
        /\ UNCHANGED <<now, steps>>

(* decline_review, handle_timeout, closeEvent -> postpone_review *)
DeclineNotification(fault) ==
    /\ Waiting("notify")
    /\ app.notification = "visible"
    /\ ReturnToCaller("postpone_review",
                      [app EXCEPT !.notification = "hidden",
                                  !.results = TimeoutResults(app.pending),
                                  !.pending = <<>>], fault)

(* finish_review / closeEvent -> on_review_completed *)
ReviewCompleted(results, fault) ==
    /\ Waiting("review")
    /\ app.reviewer = "visible"
    /\ results \in ReviewerResults(app.batch)
    /\ ReturnToCaller("on_review_completed",
                      [app EXCEPT !.reviewer = "hidden", !.results = results], fault)

(* a wait loop is left without an outcome of its own *)
WaitOver(fault) ==
    /\ \/ Waiting("notify") /\ app.notification # "visible"
       \/ Waiting("review") /\ (app.reviewer # "visible" \/ app.results # <<>>)
    /\ ReturnToCaller("wait_ends", app, fault)

ScheduleFaults == Faults \cup {""}

NextSchedule ==
    \/ CreateFlashcard
    \/ Tick
    \/ \E fault \in ScheduleFaults : CheckStartupReviews(fault)
    \/ \E fault \in ScheduleFaults : TimerFires(fault)
    \/ \E fault \in ScheduleFaults : ShotFires(fault)
    \/ \E fault \in ScheduleFaults : ManualReview(fault)
    \/ \E started \in BOOLEAN : AcceptReview(started)
    \/ \E fault \in ScheduleFaults : DeclineNotification(fault)
    \/ \E results \in ReviewerResults(app.batch), fault \in ScheduleFaults :
          ReviewCompleted(results, fault)
    \/ \E fault \in ScheduleFaults : WaitOver(fault)

SpecSchedule == InitSchedule /\ [][NextSchedule]_vars

(* the step ends an automatic pass: start_automatic_review returns, at     *)
(* once or after the session it started                                    *)
PassOver ==
    \/ last'.op = "start_automatic_review" /\ app'.frames = app.frames
    \/ /\ Len(app'.frames) < Len(app.frames)
       /\ Top.by = "start_automatic_review"

(* C39: once check_startup_reviews has run, a due check is pending         *)
(* whenever no session is in flight, and after every automatic pass        *)
(* (completed, nothing due, declined, deferred or failed)                  *)
C39_CheckPending ==
    [][/\ (app'.started /\ app'.frames = <<>>) => CheckPending(app')
       /\ PassOver => CheckPending(app')]_vars

(* a pass of the timer was deferred while the notification of a session    *)
(* was on show: the timer runs on and a single-shot trigger is outstanding *)
C39_Witness ==
    /\ last.op = "start_automatic_review"
    /\ last.result = "deferred"
    /\ app.frames # <<>>
    /\ app.shots = 1
    /\ app.timer > 0

-----------------------------------------------------------------------------
(* The scheduler running for ever with a learner who accepts every         *)
(* notification and grades every card.  A pass of the timer is taken as a  *)
(* whole: the due query, the session, the application of its results.      *)
(* Clock readings are kept relative to the present: now stays 0, and when  *)
(* time passes every next_review_time moves back, down to the ten hours    *)
(* of lateness at which the overdue bonus stops growing.  The counters and *)
(* the other timestamps of a row take no part in the ranking and are not   *)
(* kept.  The learner has not learnt the words at stage 2, which are       *)
(* answered wrong every time; a row at a later stage is answered either    *)
(* way.                                                                    *)

(* rows in the store: the first has reached stage 4 and has been due for   *)
(* ten hours, the others stage 2, each due for a little over two hours     *)
MaxStore == 11

StoreSizes == 2..MaxStore

(* quarter hours from the due query of a pass to the application of its   *)
(* results: the learner answers each card before its timer ends, and       *)
(* set_stage_timeout takes any number of seconds                           *)
MaxSession == 4

BonusHorizon == Hours(10)

(* the columns that take part in the ranking *)
Scheduling(flashcard) ==
    [flashcard EXCEPT
        !.created_at = 0,
        !.last_reviewed_at = <<>>,
        !.review_count = 0,
        !.correct_count = 0,
        !.wrong_count = 0]

(* d quarter hours pass *)
Later(table, d) ==
    [ id \in DOMAIN table |->
        [table[id] EXCEPT
            !.next_review_time = Max(@ - d, 0 - BonusHorizon)] ]

(* a row with the given history of answers that has been due for late     *)
(* quarter hours                                                           *)
Overdue(answers, late) ==
    Scheduling([Replayed(NewRow(0), answers) EXCEPT !.next_review_time = 0 - late])

InitLearner ==
    \E size \in StoreSizes :
        /\ now = 0
        /\ cards = [ id \in 1..size |->
                       IF id = 1
                       THEN Overdue(<< "True", "True", "True" >>, BonusHorizon)
                       ELSE Overdue(<< "True" >>, Hours(2) + id) ]
        /\ hist = [ id \in 1..size |-> NewHist ]
        /\ last = NoCall
        /\ steps = 0
        /\ app = NoSession

(* the learner's graded answers to a card at a stage *)
Graded(stage_id) == IF stage_id = 2 THEN {"False"} ELSE Answers(stage_id)

(* the sets of rows a query with the given limit can return: the rows     *)
(* that fewer than limit due rows do not come after are in, and the rest   *)
(* is taken from the rows that fewer than limit due rows come before (SQL  *)
(* leaves the order of rows with equal sort keys open)                     *)
FirstRows(table, due, limit) ==
    LET k == Min(limit, Cardinality(due))
        after(x) == { y \in due \ {x} : OrderedBefore(table[x], table[y]) }
        before(x) == { y \in due : OrderedBefore(table[y], table[x]) }
    IN  UNION { { sure \cup rest :
                    rest \in { T \in SUBSET { x \in due \ sure :
                                                Cardinality(before(x)) < k } :
                                 Cardinality(T) = k - Cardinality(sure) } } :
                sure \in { { x \in due :
                               Cardinality(due) - 1 - Cardinality(after(x)) < k } } }

(* variant: WHERE next_review_time < ? *)
DueBatches_Strict(table, t) ==
    FirstRows(table, { id \in DOMAIN table : table[id].next_review_time < t },
              SessionLimit)

(* start_review_session: get_due_flashcards(limit=5) on the rescored table *)
DueBatches(table, t) ==
    FirstRows(table, { id \in DOMAIN table : table[id].next_review_time <= t },
              SessionLimit)

(* start_automatic_review with rows due: the batch is presented, the       *)
(* learner grades every card of it (f), and d quarter hours after the due  *)
(* query update_flashcard_results applies the results, one call of         *)
(* update_flashcard_after_review for each row of the batch.  The ids of    *)
(* the batch are recorded in ascending order, the number of due rows with  *)
(* them.                                                                   *)
ReviewPass(d) ==
    \E table \in { UpdateAllPriorityScores(cards, Len(cards), now, now) } :
      \E due \in { { id \in Ids : table[id].next_review_time <= now } } :
        /\ due # {}
        /\ UNCHANGED <<now, hist, steps, app>>
        /\ \E B \in DueBatches(table, now), later \in { Later(table, d) } :
             \E f \in [ B -> {"True", "False"} ] :
               /\ \A id \in B : f[id] \in Graded(table[id].stage_id)
               /\ cards' = [ id \in Ids |->
                               Scheduling(IF id \in B
                                          THEN UpdatePriorityScore(
                                                   ReviewedRow(later[id], f[id], now), now)
                                          ELSE later[id]) ]
               /\ last' = Call("start_automatic_review", Cardinality(due), "",
                               SessionLimit, Ascending(B))

(* start_automatic_review with nothing due: start_review_session returns  *)
(* at once, and the passes that follow find no row until the next row      *)
(* falls due                                                               *)
EmptyPass ==
    /\ \A id \in Ids : cards[id].next_review_time > now
    /\ cards' = Later(cards, Earliest({ cards[id].next_review_time : id \in Ids }) - now)
    /\ last' = Call("start_automatic_review", 0, "", SessionLimit, <<>>)
    /\ UNCHANGED <<now, hist, steps, app>>

(* the pass of the timer *)
Passes ==
    IF \A id \in Ids : cards[id].next_review_time > now
    THEN EmptyPass
    ELSE ReviewPass(MaxSession)

NextLearner == Passes

SpecLearner == InitLearner /\ [][NextLearner]_vars

(* review_timer keeps firing *)
SpecLearnerLive == SpecLearner /\ WF_vars(Passes)

Presented(id) == last.op = "start_automatic_review" /\ id \in Range(last.ret)

(* C40 as claimed: every row that is due is in a presented batch in the    *)
(* end                                                                     *)
C40_Original ==
    \A id \in 1..MaxStore :
        (id \in Ids /\ cards[id].next_review_time <= now) ~> Presented(id)

(* C40 amended: a pass at which at most 5 rows are due presents every row  *)
(* that is due                                                             *)
C40_NotCrowded ==
    [][(last'.op = "start_automatic_review" /\ last'.id <= SessionLimit) =>
          \A id \in Ids : cards[id].next_review_time <= now => id \in Range(last'.ret)]_vars

(* in a store of ten rows the stage-4 row, left out of the batches before, *)
(* is presented by a pass at which exactly five rows are due               *)
C40_Witness ==
    /\ Len(cards) = 2 * SessionLimit
    /\ Presented(1)
    /\ last.id = SessionLimit
    /\ cards[1].stage_id = 4
    /\ cards[1].next_review_time > now

====
